---------------------------- MODULE Spec2Model ----------------------------
(***************************************************************************)
(* The heuristic mammography validator of src/src/utils/image_validator.py *)
(* as a state machine: calls of validate_image, of the scorer              *)
(* _check_mammography_characteristics and of _check_grayscale_nature,      *)
(* stepped statement by statement on per-call locals.                      *)
(*                                                                         *)
(* Numbers.  The code computes in float64.  Every quantity the scorer      *)
(* compares (a variance against 1000 or 100, a mean against 0.7) is here   *)
(* an exact rational [n, d] in lowest terms, so a value "exactly 0.7" is   *)
(* the rational 7/10.  For the inputs of this model the float64 evaluation *)
(* takes the same side of every comparison (integer pixel sums are exact   *)
(* in float64 and the tier values sum without crossing 3.5).               *)
(*                                                                         *)
(* Images.  A decoded image is a grid of hb x wb tiles, each tile x tile   *)
(* pixels of one colour, so a 100x100 image with 50x50 corner patches and  *)
(* a 1x2 image are both representable and channel and patch means are      *)
(* exact.  What OpenCV computes from the pixels and the repository only    *)
(* consumes (the local-contrast standard deviation, the Hough circles, the *)
(* contours, the smoothed histogram) travels with the image as fields; it  *)
(* is a function of the image, not a choice made per call.                 *)
(***************************************************************************)
EXTENDS Integers, Sequences, FiniteSets, TLC

VARIABLES self, pc, entry, arg, image, gray, validation_result, result, ret,
          lastResult, remembered, temp_file, cancer_analysis

vars == <<self, pc, entry, arg, image, gray, validation_result, result, ret,
          lastResult, remembered, temp_file, cancer_analysis>>

\* Python's None is the empty tuple and a value x is <<x>>
None == <<>>
Some(x) == <<x>>

-----------------------------------------------------------------------------
(* Bounds of the model *)

\* pixels (tiles) of the grids enumerated for _check_grayscale_nature
MaxPixels == 3
\* concurrent callers of one validator instance
NumCallers == 2

Callers == 1..NumCallers

-----------------------------------------------------------------------------
(* Exact rational arithmetic standing for the float64 arithmetic of numpy *)

RECURSIVE Gcd(_, _)
Gcd(a, b) == IF b = 0 THEN a ELSE Gcd(b, a % b)

Abs(x) == IF x < 0 THEN -x ELSE x

\* the rational n/d (d > 0) in lowest terms
R(n, d) == LET g == Gcd(Abs(n), d) IN [n |-> n \div g, d |-> d \div g]

RInt(k) == [n |-> k, d |-> 1]
RAdd(a, b) == R(a.n * b.d + b.n * a.d, a.d * b.d)
RSub(a, b) == R(a.n * b.d - b.n * a.d, a.d * b.d)
RMul(a, b) == R(a.n * b.n, a.d * b.d)
RDivInt(a, k) == R(a.n, a.d * k)
RLess(a, b) == a.n * b.d < b.n * a.d
RLeq(a, b) == a.n * b.d <= b.n * a.d
RMax(a, b) == IF RLess(a, b) THEN b ELSE a
RMin(a, b) == IF RLess(b, a) THEN b ELSE a

RECURSIVE RSum(_)
RSum(xs) == IF xs = <<>> THEN RInt(0) ELSE RAdd(Head(xs), RSum(Tail(xs)))

\* np.mean of a list of numbers
NpMean(xs) == RDivInt(RSum(xs), Len(xs))

\* mutant of NpVar: the sample variance (ddof = 1)
NpVarSample(xs) ==
    LET m == NpMean(xs)
        sq == [i \in 1..Len(xs) |-> RMul(RSub(xs[i], m), RSub(xs[i], m))]
    IN  RDivInt(RSum(sq), Len(xs) - 1)

\* np.var of a list of numbers (population variance, ddof = 0)
NpVar(xs) ==
    LET m == NpMean(xs)
        sq == [i \in 1..Len(xs) |-> RMul(RSub(xs[i], m), RSub(xs[i], m))]
    IN  NpMean(sq)

RECURSIVE IntSum(_)
IntSum(xs) == IF xs = <<>> THEN 0 ELSE Head(xs) + IntSum(Tail(xs))

Min2(a, b) == IF a < b THEN a ELSE b
Max2(a, b) == IF a > b THEN a ELSE b

-----------------------------------------------------------------------------
(* Images *)

\* channels = 0: a 2-D array (len(image.shape) = 2); otherwise H x W x channels
MkImage(channels, dtype, tile, hb, wb, px, cstd, circles, contours, hist) ==
    [channels |-> channels, dtype |-> dtype, tile |-> tile, hb |-> hb,
     wb |-> wb, px |-> px, contrast_std |-> cstd, circles |-> circles,
     contours |-> contours, hist_smooth |-> hist]

ShapeLen(img) == IF img.channels = 0 THEN 2 ELSE 3

\* image[:,:,c] as the list of its tile values (tiles have equal area)
Channel(img, c) == [i \in 1..Len(img.px) |-> RInt(img.px[i][c])]

-----------------------------------------------------------------------------
(* _check_grayscale_nature *)

\* the divisor of the colour variance
ColorVarianceScale == 1000

\* mutant of color_variance: g read from channel 0, as r is
color_variance_typo(img) ==
    NpVar(<<NpMean(Channel(img, 1)), NpMean(Channel(img, 1)),
            NpMean(Channel(img, 3))>>)

color_variance(img) ==
    NpVar(<<NpMean(Channel(img, 1)), NpMean(Channel(img, 2)),
            NpMean(Channel(img, 3))>>)

\* mutant of grayscale_score_of: no max(0, ...)
grayscale_score_unclamped(cv) ==
    RSub(RInt(1), RDivInt(cv, ColorVarianceScale))

\* mutant of grayscale_score_of: the variance divided by 10000
grayscale_score_wide(cv) ==
    RMax(RInt(0), RSub(RInt(1), RDivInt(cv, 10 * ColorVarianceScale)))

grayscale_score_of(cv) ==
    RMax(RInt(0), RSub(RInt(1), RDivInt(cv, ColorVarianceScale)))

check_grayscale_nature(img) ==
    IF ShapeLen(img) = 2
    THEN RInt(1)
    ELSE RMin(RInt(1), grayscale_score_of(color_variance(img)))


-----------------------------------------------------------------------------
(* cv2.cvtColor(image, cv2.COLOR_RGB2GRAY) and what the OpenCV calls accept *)

\* 8-bit RGB to gray: (4899 R + 9617 G + 1868 B + 2^13) >> 14
Rgb2Gray(p) == (4899 * p[1] + 9617 * p[2] + 1868 * p[3] + 8192) \div 16384

\* cvtColor wants 3 or 4 channels of uint8, uint16 or float32
CvtColorRaises(img) ==
    \/ img.channels \notin {3, 4}
    \/ img.dtype \notin {"uint8", "uint16", "float32"}

\* cv2.Canny and cv2.HoughCircles want an 8-bit single-channel image
CannyRaises(img) == img.dtype # "uint8"

\* lines 150-153: the grid of gray levels, one per tile
to_gray(img) ==
    IF ShapeLen(img) = 3
    THEN [i \in 1..Len(img.px) |-> Rgb2Gray(img.px[i])]
    ELSE [i \in 1..Len(img.px) |-> img.px[i][1]]

-----------------------------------------------------------------------------
(* _analyze_contrast_patterns *)

Tenths(k) == R(k, 10)

\* mutant of analyze_contrast_patterns: the middle band closed at 10 and 50
analyze_contrast_patterns_closed(img) ==
    LET contrast_std == img.contrast_std
    IN  IF 10 <= contrast_std /\ contrast_std <= 50 THEN Tenths(8)
        ELSE IF 5 < contrast_std /\ contrast_std < 80 THEN Tenths(6)
        ELSE Tenths(3)

analyze_contrast_patterns(img) ==
    LET contrast_std == img.contrast_std
    IN  IF 10 < contrast_std /\ contrast_std < 50 THEN Tenths(8)
        ELSE IF 5 < contrast_std /\ contrast_std < 80 THEN Tenths(6)
        ELSE Tenths(3)

\* mutant of analyze_breast_shape_patterns: the contours looked at first
analyze_breast_shape_contours_first(img) ==
    IF img.contours > 5 THEN Tenths(6)
    ELSE IF img.circles > 0 THEN Tenths(7)
    ELSE Tenths(4)

(* _analyze_breast_shape_patterns; circles = 0 stands for HoughCircles *)
(* returning None                                                      *)
analyze_breast_shape_patterns(img) ==
    IF img.circles > 0 THEN Tenths(7)
    ELSE IF img.contours > 5 THEN Tenths(6)
    ELSE Tenths(4)

-----------------------------------------------------------------------------
(* _check_medical_artifacts *)

\* the edge of a corner patch: gray_image[:50, :50]
CornerPatch == 50
\* the corner variance below which the background counts as uniform
CornerVarianceLimit == 100

\* pixels tile index i (rows or columns i*tile-tile .. i*tile-1) shares with
\* the pixel range lo .. hi-1
Overlap(tile, i, lo, hi) ==
    Max2(0, Min2(tile * i, hi) - Max2(tile * (i - 1), lo))

\* np.mean of gray_image[rlo:rhi, clo:chi]
PatchMean(img, g, rlo, rhi, clo, chi) ==
    LET cells == [k \in 1..(img.hb * img.wb) |->
                    Overlap(img.tile, ((k - 1) \div img.wb) + 1, rlo, rhi)
                  * Overlap(img.tile, ((k - 1) % img.wb) + 1, clo, chi)
                  * g[k]]
    IN  R(IntSum(cells), (rhi - rlo) * (chi - clo))

corner_means(img, g) ==
    LET H == img.tile * img.hb
        W == img.tile * img.wb
        ph == Min2(CornerPatch, H)
        pw == Min2(CornerPatch, W)
    IN  << PatchMean(img, g, 0, ph, 0, pw),
           PatchMean(img, g, 0, ph, W - pw, W),
           PatchMean(img, g, H - ph, H, 0, pw),
           PatchMean(img, g, H - ph, H, W - pw, W) >>

\* mutant of artifact_score_of: <= for <
artifact_score_inclusive(corner_variance) ==
    IF RLeq(corner_variance, RInt(CornerVarianceLimit))
    THEN Tenths(7) ELSE Tenths(4)

artifact_score_of(corner_variance) ==
    IF RLess(corner_variance, RInt(CornerVarianceLimit))
    THEN Tenths(7) ELSE Tenths(4)

check_medical_artifacts(img, g) ==
    artifact_score_of(NpVar(corner_means(img, g)))

-----------------------------------------------------------------------------
(* _analyze_histogram_patterns *)

\* bins of cv2.calcHist(..., [256], [0, 256])
HistBins == 256

\* hist_smooth[k], 1-based; the image carries the leading bins, the rest are 0
HistAt(img, k) ==
    IF k <= Len(img.hist_smooth) THEN img.hist_smooth[k] ELSE 0

HistMax(img) ==
    IF img.hist_smooth = <<>> THEN 0
    ELSE CHOOSE m \in {img.hist_smooth[k] : k \in 1..Len(img.hist_smooth)} :
            \A k \in 1..Len(img.hist_smooth) : img.hist_smooth[k] <= m

\* for i in range(1, len(hist_smooth) - 1): 1-based positions 2 .. 255
peaks(img) ==
    {k \in 2..(HistBins - 1) :
        /\ HistAt(img, k) > HistAt(img, k - 1)
        /\ HistAt(img, k) > HistAt(img, k + 1)
        /\ 10 * HistAt(img, k) > HistMax(img)}

\* mutant of histogram_score_of: no peak at all counts as typical too
histogram_score_from_zero(n) ==
    IF 0 <= n /\ n <= 3 THEN Tenths(8) ELSE Tenths(5)

histogram_score_of(n) ==
    IF 1 <= n /\ n <= 3 THEN Tenths(8) ELSE Tenths(5)

analyze_histogram_patterns(img) ==
    histogram_score_of(Cardinality(peaks(img)))

-----------------------------------------------------------------------------
(* the aggregate of _check_mammography_characteristics, lines 175-181 *)

ScoreNames ==
    <<"grayscale_score", "contrast_score", "shape_score", "artifact_score",
      "histogram_score">>

\* np.mean(scores)
overall_confidence(scores) == NpMean(scores)

\* mutant of is_likely_mammography: >= for >
is_likely_mammography_inclusive(confidence) == RLeq(Tenths(7), confidence)

\* result['confidence'] > 0.7
is_likely_mammography(confidence) == RLess(Tenths(7), confidence)


-----------------------------------------------------------------------------
(* The validator instance and the module it lives in *)

\* AIImageValidator.__init__, lines 26-29: the attributes an instance carries
\* when line 30 is reached
InstanceAttributes ==
    [supported_formats |-> {".jpg", ".jpeg", ".png", ".dcm", ".dicom"},
     min_resolution |-> <<224, 224>>,
     max_file_size |-> 50 * 1024 * 1024,
     validation_model |-> None]

\* the names bound at module level of image_validator.py
ModuleNames ==
    {"cv2", "np", "Image", "logging", "Path", "Tuple", "Dict", "Any", "tf",
     "logger", "AIImageValidator", "validate_mammography_image"}

\* the attributes class AIImageValidator defines
ClassAttributes ==
    {"__init__", "validate_image", "_validate_basic_properties", "_load_image",
     "_check_mammography_characteristics", "_check_grayscale_nature",
     "_analyze_contrast_patterns", "_analyze_breast_shape_patterns",
     "_check_medical_artifacts", "_analyze_histogram_patterns",
     "_validate_medical_image_properties"}

\* what a call hands back: a value, or the exception it raised
Returned(v) == [raised |-> "", value |-> Some(v)]
Raised(exc) == [raised |-> exc, value |-> None]

-----------------------------------------------------------------------------
(* Messages: the text, and what is formatted into it *)

Msg(text) == [msg |-> text, ext |-> "", num |-> -1]
MsgExt(text, ext) == [msg |-> text, ext |-> ext, num |-> -1]
MsgNum(text, num) == [msg |-> text, ext |-> "", num |-> num]

\* f"{x:.2f}" and f"{x:.1f}" of a non-negative x: the digits, as an integer
Fixed(x, scale) == (2 * x.n * scale + x.d) \div (2 * x.d)

-----------------------------------------------------------------------------
(* _validate_basic_properties and _load_image *)

MinFileSize == 1024

\* Path(image_path).suffix.lower()
Lower(suffix) == IF suffix = ".JPG" THEN ".jpg" ELSE suffix

\* Path.exists() / Path.stat() raising OSError for a path that cannot be examined
PathRaises(f) == f.access = "oserror"

\* mutant of validate_basic_properties: no upper limit on the file size
validate_basic_properties_unlimited(s, f) ==
    IF f.access = "missing"
    THEN [is_valid |-> FALSE, errors |-> <<Msg("File does not exist")>>]
    ELSE LET e1 == IF Lower(f.suffix) \notin s.supported_formats
                   THEN <<MsgExt("Unsupported format: ", Lower(f.suffix))>>
                   ELSE <<>>
             e3 == IF f.size < MinFileSize
                   THEN <<Msg("File too small to be a medical image")>>
                   ELSE <<>>
         IN  [is_valid |-> (e1 \o e3) = <<>>, errors |-> e1 \o e3]

validate_basic_properties(s, f) ==
    IF f.access = "missing"
    THEN [is_valid |-> FALSE, errors |-> <<Msg("File does not exist")>>]
    ELSE LET e1 == IF Lower(f.suffix) \notin s.supported_formats
                   THEN <<MsgExt("Unsupported format: ", Lower(f.suffix))>>
                   ELSE <<>>
             e2 == IF f.size > s.max_file_size
                   THEN <<MsgNum("File too large: MB",
                                 Fixed(R(f.size, 1024 * 1024), 10))>>
                   ELSE <<>>
             e3 == IF f.size < MinFileSize
                   THEN <<Msg("File too small to be a medical image")>>
                   ELSE <<>>
         IN  [is_valid |-> (e1 \o e2 \o e3) = <<>>, errors |-> e1 \o e2 \o e3]

\* Image.open, convert('RGB'), np.array; any exception gives None
load_image(s, f) == IF f.decodable THEN f.image ELSE None

\* mutant of is_none: a failed load is never noticed
never_none(x) == FALSE

\* `image is None`, line 60
is_none(x) == x = None

-----------------------------------------------------------------------------
(* _validate_medical_image_properties *)

medical_warnings(img) ==
    LET H == img.tile * img.hb
        W == img.tile * img.wb
        g == to_gray(img)
        mean_brightness == R(IntSum(g), Len(g))
        w1 == IF ~(H <= 2 * W /\ W <= 2 * H)
              THEN <<MsgNum("Unusual aspect ratio: ", Fixed(R(W, H), 100))>>
              ELSE <<>>
        w2 == IF RLess(mean_brightness, RInt(30))
              THEN <<Msg("Image appears very dark")>>
              ELSE IF RLess(RInt(200), mean_brightness)
                   THEN <<Msg("Image appears very bright")>>
                   ELSE <<>>
    IN  w1 \o w2

-----------------------------------------------------------------------------
(* The dictionaries a call starts from *)

\* mutant of NewValidationResult: one dictionary kept between calls instead of
\* a new one per call
StaleValidationResult ==
    IF lastResult = None
    THEN [is_valid |-> FALSE, is_mammography |-> FALSE, confidence |-> RInt(0),
          errors |-> <<>>, warnings |-> <<>>, image_info |-> <<>>]
    ELSE lastResult[1]

\* validate_image, lines 42-49
NewValidationResult ==
    [is_valid |-> FALSE, is_mammography |-> FALSE, confidence |-> RInt(0),
     errors |-> <<>>, warnings |-> <<>>, image_info |-> <<>>]

\* _check_mammography_characteristics, lines 142-146
NewResult ==
    [is_mammography |-> FALSE, confidence |-> RInt(0), characteristics |-> <<>>]

\* result['characteristics'][name] = score
WithScore(res, name, score) ==
    [res EXCEPT !.characteristics = (name :> score) @@ @]

\* the five local scores, once all are computed
ScoresOf(res) == [i \in 1..Len(ScoreNames) |-> res.characteristics[ScoreNames[i]]]


-----------------------------------------------------------------------------
(* Inputs *)

Black == <<0, 0, 0>>
Gray19 == <<19, 19, 19>>
Gray20 == <<20, 20, 20>>
Gray128 == <<128, 128, 128>>
White == <<255, 255, 255>>
Tinted == <<130, 100, 100>>
Red == <<255, 0, 0>>
Blue == <<0, 0, 255>>

Layout(tile, hb, wb, px) == [tile |-> tile, hb |-> hb, wb |-> wb, px |-> px]

\* RGB pixel grids: smaller than a corner patch (tile 1, 25) and 100x100 and
\* larger (tile 50); gray, tinted and coloured; equal and unequal corners
RgbLayouts ==
    { Layout(1, 1, 1, <<Gray128>>),
      Layout(1, 1, 1, <<Tinted>>),
      Layout(1, 1, 2, <<Red, Blue>>),
      Layout(25, 2, 2, <<Black, White, Black, White>>),
      Layout(50, 1, 1, <<Black>>),
      Layout(50, 1, 1, <<White>>),
      Layout(50, 1, 3, <<Gray128, Gray128, Gray128>>),
      Layout(50, 2, 2, <<Gray128, Gray128, Gray128, Gray128>>),
      Layout(50, 2, 2, <<Tinted, Tinted, Tinted, Tinted>>),
      Layout(50, 2, 2, <<Black, Gray19, Black, Gray19>>),
      Layout(50, 2, 2, <<Black, Gray20, Black, Gray20>>),
      Layout(50, 2, 2, <<Red, Red, Blue, Blue>>) }

\* single-channel grids (2-D arrays)
PlainLayouts ==
    { Layout(1, 1, 1, <<<<128>>>>),
      Layout(50, 2, 2, <<<<0>>, <<20>>, <<0>>, <<20>>>>) }

\* what np.std(contrast) can be, around the edges of both bands
ContrastStds == {5, 6, 10, 11, 49, 50, 79, 80}

\* <<circles found, contours found>>
ShapeFindings == {<<1, 0>>, <<1, 9>>, <<0, 0>>, <<0, 5>>, <<0, 6>>}

\* leading bins of the smoothed histogram
Histograms ==
    { <<5>>, <<0, 5>>, <<0, 5, 5, 0>>, <<0, 50, 0, 5>>, <<0, 5, 0, 5, 0, 5>>,
      <<0, 5, 0, 5, 0, 5, 0, 5>>, <<0, 50, 0, 6, 0, 6, 0, 6>> }

ImagesOf(channels, dtype, layouts) ==
    { MkImage(channels, dtype, l.tile, l.hb, l.wb, l.px, c, sf[1], sf[2], h) :
        l \in layouts, c \in ContrastStds, sf \in ShapeFindings,
        h \in Histograms }

\* what _load_image can return: H x W x 3, uint8
RgbImages == ImagesOf(3, "uint8", RgbLayouts)

\* what the scorer can be handed directly: also 2-D grids of 8 or 16 bits and
\* an array with two channels
ScorerImages ==
    RgbImages \cup ImagesOf(0, "uint8", PlainLayouts)
              \cup ImagesOf(0, "uint16", {Layout(1, 1, 1, <<<<4096>>>>)})
              \cup { MkImage(2, "uint8", 1, 1, 1, <<<<128, 255>>>>, 11, 1, 0,
                             <<0, 5>>) }

SampleImage ==
    MkImage(3, "uint8", 50, 2, 2, <<Gray128, Gray128, Gray128, Gray128>>,
            11, 1, 0, <<0, 5>>)

ColourImage ==
    MkImage(3, "uint8", 1, 1, 2, <<Red, Blue>>, 5, 0, 0, <<5>>)

MkFile(access, suffix, size, decodable, img) ==
    [access |-> access, suffix |-> suffix, size |-> size,
     decodable |-> decodable, image |-> IF decodable THEN Some(img) ELSE None]

\* files by what the file system says of them, all holding the same picture
AttributeFiles ==
    { MkFile(a, sx, sz, d, SampleImage) :
        a \in {"ok", "missing", "oserror"},
        sx \in {".jpg", ".JPG", ".txt", ""},
        sz \in {MinFileSize - 1, MinFileSize, InstanceAttributes.max_file_size,
                InstanceAttributes.max_file_size + 1},
        d \in BOOLEAN }

\* well-formed files by the picture they hold
PictureFiles == { MkFile("ok", ".png", 2 * MinFileSize, TRUE, i) : i \in RgbImages }

Files == AttributeFiles \cup PictureFiles

\* the files concurrent callers validate: accepted, rejected, undecodable
SharedFiles ==
    { MkFile("ok", ".jpg", MinFileSize, TRUE, SampleImage),
      MkFile("ok", ".jpg", MinFileSize, TRUE, ColourImage),
      MkFile("ok", ".jpg", MinFileSize, FALSE, SampleImage) }


\* test_real_images.py, lines 47-49: randint(100, 255), randint(50, 200),
\* randint(150, 255); a uniform draw is carried by the two ends of its range
PhotoRanges == << <<100, 254>>, <<50, 199>>, <<150, 254>> >>
\* test_real_images.py, line 45: randint(0, 255) on every channel
NoiseRanges == << <<0, 254>>, <<0, 254>>, <<0, 254>> >>

ColoursOver(ranges) ==
    { <<r, g, b>> : r \in {ranges[1][1], ranges[1][2]},
                    g \in {ranges[2][1], ranges[2][2]},
                    b \in {ranges[3][1], ranges[3][2]} }

GrayPalette ==
    {Black, Gray128, Tinted, Red, Blue, <<100, 50, 150>>, <<254, 199, 254>>}

GridsOver(palette, n) == [1..n -> palette]

\* what _check_grayscale_nature is handed on its own: every 1 x n strip of
\* up to MaxPixels pixels, RGB or single-channel, and the 512x512 pictures of
\* four 256x256 tiles over the ends of the test's ranges
GrayscaleInputs ==
    { MkImage(3, "uint8", 1, 1, Len(px), px, 0, 0, 0, <<>>) :
        px \in UNION { GridsOver(GrayPalette, n) : n \in 1..MaxPixels } }
    \cup
    { MkImage(0, "uint8", 1, 1, Len(px), px, 0, 0, 0, <<>>) :
        px \in UNION { GridsOver({<<0>>, <<128>>, <<255>>}, n) : n \in 1..MaxPixels } }
    \cup
    { MkImage(3, "uint8", 256, 2, 2, px, 0, 0, 0, <<>>) :
        px \in GridsOver(ColoursOver(PhotoRanges), 4)
               \cup GridsOver(ColoursOver(NoiseRanges), 4) }

-----------------------------------------------------------------------------
(* Calls.  pc[w] is the statement caller w is about to execute. *)

Init ==
    /\ self = InstanceAttributes
    /\ pc = [w \in Callers |-> "idle"]
    /\ entry = [w \in Callers |-> ""]
    /\ arg = [w \in Callers |-> None]
    /\ image = [w \in Callers |-> None]
    /\ gray = [w \in Callers |-> <<>>]
    /\ validation_result = [w \in Callers |-> None]
    /\ result = [w \in Callers |-> None]
    /\ ret = [w \in Callers |-> None]
    /\ lastResult = None
    /\ remembered = None
    /\ temp_file = [w \in Callers |-> None]
    /\ cancer_analysis = [w \in Callers |-> None]

Goto(w, label) == pc' = [pc EXCEPT ![w] = label]

\* the call ends: its value or exception is in ret[w]
Finish(w, r) == /\ ret' = [ret EXCEPT ![w] = r]
                /\ Goto(w, "done")

(* validate_image(image_path), lines 42-49 *)
CallValidateImage(w, files) ==
    /\ pc[w] = "idle"
    /\ \E f \in files :
        /\ entry' = [entry EXCEPT ![w] = "validate_image"]
        /\ arg' = [arg EXCEPT ![w] = Some(f)]
    /\ validation_result' = [validation_result EXCEPT ![w] = Some(NewValidationResult)]
    /\ Goto(w, "basic")
    /\ UNCHANGED <<temp_file, cancer_analysis, self, image, gray, result, ret, lastResult, remembered>>

\* lines 81-85: the outer except appends the error and the dictionary is returned
ValidationError(vr, exc) ==
    [vr EXCEPT !.errors = Append(@, MsgExt("Validation error: ", exc))]

(* lines 53-56 *)
BasicValidation(w) ==
    /\ pc[w] = "basic"
    /\ LET f == arg[w][1]
           vr == validation_result[w][1]
       IN  IF PathRaises(f)
           THEN /\ validation_result' = [validation_result EXCEPT
                        ![w] = Some(ValidationError(vr, "OSError"))]
                /\ Finish(w, Returned(ValidationError(vr, "OSError")))
           ELSE LET basic_validation == validate_basic_properties(self, f)
                IN  IF ~basic_validation.is_valid
                    THEN LET out == [vr EXCEPT !.errors = @ \o basic_validation.errors]
                         IN  /\ validation_result' =
                                   [validation_result EXCEPT ![w] = Some(out)]
                             /\ Finish(w, Returned(out))
                    ELSE /\ Goto(w, "load")
                         /\ UNCHANGED <<validation_result, ret>>
    /\ UNCHANGED <<temp_file, cancer_analysis, self, entry, arg, image, gray, result, lastResult, remembered>>

(* lines 59-62 *)
LoadImage(w) ==
    /\ pc[w] = "load"
    /\ LET img == load_image(self, arg[w][1])
           vr == validation_result[w][1]
       IN  /\ image' = [image EXCEPT ![w] = img]
           /\ IF is_none(img)
              THEN LET out == [vr EXCEPT !.errors = Append(@, Msg("Failed to load image"))]
                   IN  /\ validation_result' =
                             [validation_result EXCEPT ![w] = Some(out)]
                       /\ Finish(w, Returned(out))
              ELSE /\ Goto(w, "convert")
                   /\ UNCHANGED <<validation_result, ret>>
    /\ UNCHANGED <<temp_file, cancer_analysis, self, entry, arg, gray, result, lastResult, remembered>>

(* _check_mammography_characteristics(image) called on its own *)
CallCheckCharacteristics(w, images) ==
    /\ pc[w] = "idle"
    /\ \E img \in images :
        /\ entry' = [entry EXCEPT ![w] = "_check_mammography_characteristics"]
        /\ arg' = [arg EXCEPT ![w] = Some(img)]
        /\ image' = [image EXCEPT ![w] = Some(img)]
    /\ Goto(w, "convert")
    /\ UNCHANGED <<temp_file, cancer_analysis, self, gray, validation_result, result, ret, lastResult, remembered>>

\* an exception inside the try of lines 148-181: logged, result returned as it is
Caught(w) == Goto(w, "characteristics_return")

(* lines 142-153: the result dictionary, then the gray conversion *)
ConvertToGray(w) ==
    /\ pc[w] = "convert"
    /\ result' = [result EXCEPT ![w] = Some(NewResult)]
    /\ IF image[w] = None
       THEN Caught(w) /\ UNCHANGED gray
       ELSE LET img == image[w][1]
            IN  IF ShapeLen(img) = 3 /\ CvtColorRaises(img)
                THEN Caught(w) /\ UNCHANGED gray
                ELSE /\ gray' = [gray EXCEPT ![w] = to_gray(img)]
                     /\ Goto(w, "grayscale")
    /\ UNCHANGED <<temp_file, cancer_analysis, self, entry, arg, image, validation_result, ret, lastResult, remembered>>

SetScore(w, name, score) ==
    result' = [result EXCEPT ![w] = Some(WithScore(result[w][1], name, score))]

(* lines 156-157 *)
ScoreGrayscale(w) ==
    /\ pc[w] = "grayscale"
    /\ SetScore(w, "grayscale_score", check_grayscale_nature(image[w][1]))
    /\ Goto(w, "contrast")
    /\ UNCHANGED <<temp_file, cancer_analysis, self, entry, arg, image, gray, validation_result, ret, lastResult, remembered>>

(* lines 160-161 *)
ScoreContrast(w) ==
    /\ pc[w] = "contrast"
    /\ SetScore(w, "contrast_score", analyze_contrast_patterns(image[w][1]))
    /\ Goto(w, "shape")
    /\ UNCHANGED <<temp_file, cancer_analysis, self, entry, arg, image, gray, validation_result, ret, lastResult, remembered>>

(* lines 164-165 *)
ScoreShape(w) ==
    /\ pc[w] = "shape"
    /\ IF CannyRaises(image[w][1])
       THEN Caught(w) /\ UNCHANGED result
       ELSE /\ SetScore(w, "shape_score", analyze_breast_shape_patterns(image[w][1]))
            /\ Goto(w, "artifact")
    /\ UNCHANGED <<temp_file, cancer_analysis, self, entry, arg, image, gray, validation_result, ret, lastResult, remembered>>

(* lines 168-169 *)
ScoreArtifact(w) ==
    /\ pc[w] = "artifact"
    /\ SetScore(w, "artifact_score", check_medical_artifacts(image[w][1], gray[w]))
    /\ Goto(w, "histogram")
    /\ UNCHANGED <<temp_file, cancer_analysis, self, entry, arg, image, gray, validation_result, ret, lastResult, remembered>>

(* lines 172-173 *)
ScoreHistogram(w) ==
    /\ pc[w] = "histogram"
    /\ SetScore(w, "histogram_score", analyze_histogram_patterns(image[w][1]))
    /\ Goto(w, "aggregate")
    /\ UNCHANGED <<temp_file, cancer_analysis, self, entry, arg, image, gray, validation_result, ret, lastResult, remembered>>

(* lines 175-181 *)
Aggregate(w) ==
    /\ pc[w] = "aggregate"
    /\ LET res == result[w][1]
           confidence == overall_confidence(ScoresOf(res))
       IN  result' = [result EXCEPT ![w] =
                Some([res EXCEPT !.confidence = confidence,
                                 !.is_mammography = is_likely_mammography(confidence)])]
    /\ Goto(w, "characteristics_return")
    /\ UNCHANGED <<temp_file, cancer_analysis, self, entry, arg, image, gray, validation_result, ret, lastResult, remembered>>

(* line 186, and line 66 of the caller: validation_result.update(...) *)
ReturnCharacteristics(w) ==
    /\ pc[w] = "characteristics_return"
    /\ IF entry[w] = "_check_mammography_characteristics"
       THEN /\ Finish(w, Returned(result[w][1]))
            /\ UNCHANGED validation_result
       ELSE /\ validation_result' = [validation_result EXCEPT
                    ![w] = Some(result[w][1] @@ validation_result[w][1])]
            /\ Goto(w, "medical")
            /\ UNCHANGED ret
    /\ UNCHANGED <<temp_file, cancer_analysis, self, entry, arg, image, gray, result, lastResult, remembered>>

(* lines 69-70 *)
MedicalValidation(w) ==
    /\ pc[w] = "medical"
    /\ LET vr == validation_result[w][1]
       IN  IF image[w] = None
           THEN /\ validation_result' = [validation_result EXCEPT
                        ![w] = Some(ValidationError(vr, "AttributeError"))]
                /\ Finish(w, Returned(ValidationError(vr, "AttributeError")))
           ELSE /\ validation_result' = [validation_result EXCEPT
                        ![w] = Some([vr EXCEPT !.warnings =
                                        @ \o medical_warnings(image[w][1])])]
                /\ Goto(w, "decide")
                /\ UNCHANGED ret
    /\ UNCHANGED <<temp_file, cancer_analysis, self, entry, arg, image, gray, result, lastResult, remembered>>

\* mutant of final_decision: an image with a warning is refused
final_decision_unless_warned(vr) ==
    IF vr.is_mammography /\ RLess(Tenths(7), vr.confidence) /\ vr.warnings = <<>>
    THEN [vr EXCEPT !.is_valid = TRUE]
    ELSE [vr EXCEPT !.errors = Append(@,
            MsgNum("Image does not appear to be a breast mammography. Confidence: ",
                   Fixed(vr.confidence, 100)))]

\* lines 73-79
final_decision(vr) ==
    IF vr.is_mammography /\ RLess(Tenths(7), vr.confidence)
    THEN [vr EXCEPT !.is_valid = TRUE]
    ELSE [vr EXCEPT !.errors = Append(@,
            MsgNum("Image does not appear to be a breast mammography. Confidence: ",
                   Fixed(vr.confidence, 100)))]

(* lines 73-85 *)
FinalDecision(w) ==
    /\ pc[w] = "decide"
    /\ LET out == final_decision(validation_result[w][1])
       IN  /\ validation_result' = [validation_result EXCEPT ![w] = Some(out)]
           /\ Finish(w, Returned(out))
    /\ UNCHANGED <<temp_file, cancer_analysis, self, entry, arg, image, gray, result, lastResult, remembered>>


(* _check_grayscale_nature(image) called on its own *)
CallCheckGrayscale(w, images) ==
    /\ pc[w] = "idle"
    /\ \E img \in images :
        /\ entry' = [entry EXCEPT ![w] = "_check_grayscale_nature"]
        /\ arg' = [arg EXCEPT ![w] = Some(img)]
        /\ image' = [image EXCEPT ![w] = Some(img)]
    /\ Goto(w, "grayscale_only")
    /\ UNCHANGED <<temp_file, cancer_analysis, self, gray, validation_result, result, ret, lastResult, remembered>>

(* lines 190-199 *)
ReturnGrayscale(w) ==
    /\ pc[w] = "grayscale_only"
    /\ Finish(w, Returned(check_grayscale_nature(image[w][1])))
    /\ UNCHANGED <<temp_file, cancer_analysis, self, entry, arg, image, gray, validation_result, result,
                   lastResult, remembered>>

\* the exception AIImageValidator() ends with, "" for none: line 30 looks up
\* self._load_validation_model
constructor_raises ==
    IF "_load_validation_model" \in ClassAttributes THEN "" ELSE "AttributeError"

\* the exception line 316 ends with before validate_image is called
instantiate_raises ==
    IF "MammographyValidator" \notin ModuleNames THEN "NameError"
    ELSE constructor_raises

(* AIImageValidator() *)
CallConstructor(w) ==
    /\ pc[w] = "idle"
    /\ entry' = [entry EXCEPT ![w] = "AIImageValidator"]
    /\ Goto(w, "init")
    /\ UNCHANGED <<temp_file, cancer_analysis, self, arg, image, gray, validation_result, result, ret,
                   lastResult, remembered>>

(* __init__, lines 26-30 *)
InitInstance(w) ==
    /\ pc[w] = "init"
    /\ IF constructor_raises = ""
       THEN Finish(w, Returned(InstanceAttributes))
       ELSE Finish(w, Raised(constructor_raises))
    /\ UNCHANGED <<temp_file, cancer_analysis, self, entry, arg, image, gray, validation_result, result,
                   lastResult, remembered>>

(* validate_mammography_image(image_path) *)
CallValidateMammographyImage(w, files) ==
    /\ pc[w] = "idle"
    /\ \E f \in files :
        /\ entry' = [entry EXCEPT ![w] = "validate_mammography_image"]
        /\ arg' = [arg EXCEPT ![w] = Some(f)]
    /\ Goto(w, "instantiate")
    /\ UNCHANGED <<temp_file, cancer_analysis, self, image, gray, validation_result, result, ret,
                   lastResult, remembered>>

(* lines 316-317 *)
Instantiate(w) ==
    /\ pc[w] = "instantiate"
    /\ IF instantiate_raises # ""
       THEN /\ Finish(w, Raised(instantiate_raises))
            /\ UNCHANGED validation_result
       ELSE /\ validation_result' =
                  [validation_result EXCEPT ![w] = Some(NewValidationResult)]
            /\ Goto(w, "basic")
            /\ UNCHANGED ret
    /\ UNCHANGED <<temp_file, cancer_analysis, self, entry, arg, image, gray, result, lastResult, remembered>>

\* the caller has the value; the locals of the call are gone
Forget(w) ==
    /\ Goto(w, "idle")
    /\ entry' = [entry EXCEPT ![w] = ""]
    /\ arg' = [arg EXCEPT ![w] = None]
    /\ image' = [image EXCEPT ![w] = None]
    /\ gray' = [gray EXCEPT ![w] = <<>>]
    /\ validation_result' = [validation_result EXCEPT ![w] = None]
    /\ result' = [result EXCEPT ![w] = None]
    /\ ret' = [ret EXCEPT ![w] = None]

(* the call returns to its caller; lastResult is the dictionary validate_image *)
(* returned last                                                              *)
Return(w) ==
    /\ pc[w] = "done"
    /\ lastResult' = ret[w].value
    /\ Forget(w)
    /\ UNCHANGED <<temp_file, cancer_analysis, self, remembered>>

(* the same, the caller keeping the argument and the result to compare later *)
ReturnAndKeep(w) ==
    /\ pc[w] = "done"
    /\ remembered = None
    /\ remembered' = Some([arg |-> arg[w], ret |-> ret[w]])
    /\ lastResult' = ret[w].value
    /\ Forget(w)
    /\ UNCHANGED <<temp_file, cancer_analysis, self>>

Scorer(w) ==
    \/ ConvertToGray(w)
    \/ ScoreGrayscale(w)
    \/ ScoreContrast(w)
    \/ ScoreShape(w)
    \/ ScoreArtifact(w)
    \/ ScoreHistogram(w)
    \/ Aggregate(w)
    \/ ReturnCharacteristics(w)

Validator(w) ==
    \/ BasicValidation(w)
    \/ LoadImage(w)
    \/ MedicalValidation(w)
    \/ FinalDecision(w)

-----------------------------------------------------------------------------
(* Specifications *)

\* one call of any entry point on any input
Next ==
    \/ CallValidateImage(1, Files)
    \/ CallCheckCharacteristics(1, ScorerImages)
    \/ CallValidateMammographyImage(1, AttributeFiles)
    \/ CallConstructor(1)
    \/ Validator(1)
    \/ Scorer(1)
    \/ InitInstance(1)
    \/ Instantiate(1)

Spec == Init /\ [][Next]_vars

\* callers validating the shared files again and again on one instance, their
\* steps interleaved
NextShared ==
    \E w \in Callers :
        \/ CallValidateImage(w, SharedFiles)
        \/ Validator(w)
        \/ Scorer(w)
        \/ Return(w)
        \/ ReturnAndKeep(w)

SpecShared == Init /\ [][NextShared]_vars

\* one call of _check_grayscale_nature on any pixel grid
NextGrayscale ==
    \/ CallCheckGrayscale(1, GrayscaleInputs)
    \/ ReturnGrayscale(1)

SpecGrayscale == Init /\ [][NextGrayscale]_vars


-----------------------------------------------------------------------------
(* The two methods as functions of their argument: a call run on its own *)

\* _check_mammography_characteristics, lines 138-186
check_mammography_characteristics(imgOpt) ==
    IF imgOpt = None THEN NewResult
    ELSE LET img == imgOpt[1]
         IN  IF ShapeLen(img) = 3 /\ CvtColorRaises(img) THEN NewResult
             ELSE LET r1 == WithScore(NewResult, "grayscale_score",
                                      check_grayscale_nature(img))
                      r2 == WithScore(r1, "contrast_score",
                                      analyze_contrast_patterns(img))
                      r3 == WithScore(r2, "shape_score",
                                      analyze_breast_shape_patterns(img))
                      r4 == WithScore(r3, "artifact_score",
                                      check_medical_artifacts(img, to_gray(img)))
                      r5 == WithScore(r4, "histogram_score",
                                      analyze_histogram_patterns(img))
                      confidence == overall_confidence(ScoresOf(r5))
                 IN  IF CannyRaises(img) THEN r2
                     ELSE [r5 EXCEPT !.confidence = confidence,
                                     !.is_mammography =
                                          is_likely_mammography(confidence)]

\* validate_image, lines 32-85
validate_image(s, f) ==
    IF PathRaises(f) THEN ValidationError(NewValidationResult, "OSError")
    ELSE LET basic_validation == validate_basic_properties(s, f)
             img == load_image(s, f)
             checked == check_mammography_characteristics(img) @@ NewValidationResult
         IN  IF ~basic_validation.is_valid
             THEN [NewValidationResult EXCEPT !.errors = basic_validation.errors]
             ELSE IF is_none(img)
             THEN [NewValidationResult EXCEPT
                      !.errors = <<Msg("Failed to load image")>>]
             ELSE IF img = None
             THEN ValidationError(checked, "AttributeError")
             ELSE final_decision([checked EXCEPT
                      !.warnings = @ \o medical_warnings(img[1])])

-----------------------------------------------------------------------------
(* Properties *)

Zero == RInt(0)
One == RInt(1)
InUnit(x) == RLeq(Zero, x) /\ RLeq(x, One)

AllScored(res) == DOMAIN res.characteristics = {ScoreNames[i] : i \in 1..Len(ScoreNames)}

\* the scorer of caller w has run its aggregate step
Aggregated(w) ==
    /\ result[w] # None
    /\ pc[w] \in {"characteristics_return", "medical", "decide", "done"}
    /\ AllScored(result[w][1])

\* C1: once all five sub-scores are computed, confidence is their unweighted
\* arithmetic mean and is_mammography holds exactly when confidence > 0.7:
\* the scores 0.8, 0.6, 0.7, 0.7, 0.8 give 0.72 and True, and a confidence of
\* exactly 0.7 gives False.
C1_ConfidenceIsMeanVerdictStrict ==
    \A w \in Callers :
        Aggregated(w) =>
            LET res == result[w][1]
                sc == ScoresOf(res)
                total == RAdd(sc[1], RAdd(sc[2], RAdd(sc[3], RAdd(sc[4], sc[5]))))
            IN  /\ RMul(RInt(5), res.confidence) = total
                /\ res.is_mammography <=> RLess(R(7, 10), res.confidence)
                /\ sc = <<R(8, 10), R(6, 10), R(7, 10), R(7, 10), R(8, 10)>>
                      => res.confidence = R(72, 100) /\ res.is_mammography
                /\ res.confidence = R(7, 10) => ~res.is_mammography

\* the scorer returned for the scores 0.8, 0.6, 0.7, 0.7, 0.8
C1_SpecExampleScored ==
    \E w \in Callers :
        /\ pc[w] = "done"
        /\ entry[w] = "_check_mammography_characteristics"
        /\ AllScored(ret[w].value[1])
        /\ ScoresOf(ret[w].value[1]) = <<R(8, 10), R(6, 10), R(7, 10), R(7, 10), R(8, 10)>>
        /\ ret[w].value[1].confidence = R(72, 100)
        /\ ret[w].value[1].is_mammography

\* the scorer returned a confidence of exactly 0.7
C1_BoundaryScored ==
    \E w \in Callers :
        /\ pc[w] = "done"
        /\ entry[w] = "_check_mammography_characteristics"
        /\ AllScored(ret[w].value[1])
        /\ ret[w].value[1].confidence = R(7, 10)
        /\ ~ret[w].value[1].is_mammography

\* C2: a sub-score that cannot be computed is replaced on its own; the scorer
\* does not raise and every result it returns holds all five sub-scores and
\* their mean as confidence (never confidence 0.0 with sub-scores skipped).
C2_EverySubScoreDegradesAlone ==
    \A w \in Callers :
        (pc[w] = "done" /\ entry[w] = "_check_mammography_characteristics") =>
            /\ ret[w].raised = ""
            /\ AllScored(ret[w].value[1])
            /\ RMul(RInt(5), ret[w].value[1].confidence)
                 = RSum(ScoresOf(ret[w].value[1]))

\* C3: every sub-score computed for any image lies in [0,1], and the
\* confidence validate_image holds and returns lies in [0,1] on every path.
C3_ScoresAndConfidenceInUnitInterval ==
    \A w \in Callers :
        /\ result[w] # None =>
              /\ \A k \in DOMAIN result[w][1].characteristics :
                      InUnit(result[w][1].characteristics[k])
              /\ InUnit(result[w][1].confidence)
        /\ validation_result[w] # None => InUnit(validation_result[w][1].confidence)
        /\ (pc[w] = "done" /\ entry[w] = "validate_image") =>
              /\ ret[w].raised = ""
              /\ InUnit(ret[w].value[1].confidence)

\* validate_image returned an accepted image whose grayscale score and
\* confidence are strictly inside the interval
C3_AcceptedWithInnerScores ==
    \E w \in Callers :
        /\ pc[w] = "done"
        /\ entry[w] = "validate_image"
        /\ ret[w].value[1].is_valid
        /\ RLess(Zero, ret[w].value[1].characteristics["grayscale_score"])
        /\ RLess(ret[w].value[1].characteristics["grayscale_score"], One)
        /\ RLess(ret[w].value[1].confidence, One)

\* C4: validate_mammography_image(path) returns a validation-results
\* dictionary for any path and never raises.
C4_UtilityReturnsDictionary ==
    \A w \in Callers :
        (pc[w] = "done" /\ entry[w] = "validate_mammography_image") =>
            /\ ret[w].raised = ""
            /\ ret[w].value # None

\* C5: when _load_image returns None, validate_image returns is_valid False
\* with the single error 'Failed to load image', and neither a sub-score nor
\* the aggregate was computed in that call.
C5_DecodeFailureStopsPipeline ==
    \A w \in Callers :
        ( /\ pc[w] = "done"
          /\ entry[w] = "validate_image"
          /\ ~PathRaises(arg[w][1])
          /\ validate_basic_properties(self, arg[w][1]).is_valid
          /\ load_image(self, arg[w][1]) = None ) =>
            /\ ret[w].raised = ""
            /\ ~ret[w].value[1].is_valid
            /\ ret[w].value[1].errors = <<Msg("Failed to load image")>>
            /\ ret[w].value[1].confidence = Zero
            /\ "characteristics" \notin DOMAIN ret[w].value[1]
            /\ result[w] = None
            /\ gray[w] = <<>>

\* validate_image returned for a file that passes the basic checks and does
\* not decode
C5_UndecodableReturned ==
    \E w \in Callers :
        /\ pc[w] = "done"
        /\ entry[w] = "validate_image"
        /\ ~PathRaises(arg[w][1])
        /\ validate_basic_properties(self, arg[w][1]).is_valid
        /\ load_image(self, arg[w][1]) = None
        /\ image[w] = None

\* C6: a call on an argument returns what the earlier, remembered call on
\* the same argument returned (sub-scores, confidence, verdict and all),
\* whatever was validated in between, and no call changes the instance.
C6_SameImageSameResult ==
    /\ self = InstanceAttributes
    /\ \A w \in Callers :
          (pc[w] = "done" /\ remembered # None /\ remembered[1].arg = arg[w]) =>
              ret[w] = remembered[1].ret

\* a scored image is returned a second time, after a call that returned
\* something else
C6_ScoredAgainAfterAnother ==
    \E w \in Callers :
        /\ pc[w] = "done"
        /\ remembered # None
        /\ remembered[1].arg = arg[w]
        /\ "characteristics" \in DOMAIN ret[w].value[1]
        /\ lastResult # None
        /\ lastResult # ret[w].value

\* C7: under every interleaving of concurrent calls, each call returns
\* exactly what it returns when run alone.
C7_InterleavedEqualsAlone ==
    \A w \in Callers :
        pc[w] = "done" => ret[w] = Returned(validate_image(InstanceAttributes, arg[w][1]))

\* two calls on different files are both past the scorer, one finished
C7_TwoCallsInFlight ==
    \E w, v \in Callers :
        /\ w # v
        /\ pc[w] = "done"
        /\ pc[v] \in {"medical", "decide", "done"}
        /\ arg[w] # arg[v]
        /\ "characteristics" \in DOMAIN ret[w].value[1]

\* the variance of the three channel means, from the channel sums:
\* ((Sr-Sg)^2 + (Sg-Sb)^2 + (Sr-Sb)^2) / (9 N^2)
ChannelSum(img, c) == IntSum([i \in 1..Len(img.px) |-> img.px[i][c]])

MeanVariance(img) ==
    LET sr == ChannelSum(img, 1)
        sg == ChannelSum(img, 2)
        sb == ChannelSum(img, 3)
        n == Len(img.px)
    IN  R((sr - sg) * (sr - sg) + (sg - sb) * (sg - sb) + (sr - sb) * (sr - sb),
          9 * n * n)

\* a call of _check_grayscale_nature on its own has returned
GrayscaleDone(w) == pc[w] = "done" /\ entry[w] = "_check_grayscale_nature"

\* C8: _check_grayscale_nature returns max(0, 1 - v/1000), at most 1.0, for
\* the variance v of the three channel means; it returns exactly 1.0 when the
\* three channel means are equal and for a single-channel image.
C8_GrayscaleScoreFormula ==
    \A w \in Callers :
        GrayscaleDone(w) =>
            LET img == arg[w][1]
                score == ret[w].value[1]
            IN  IF ShapeLen(img) = 2
                THEN score = One
                ELSE LET v == MeanVariance(img)
                         raw == R(1000 * v.d - v.n, 1000 * v.d)
                     IN  /\ score = (IF RLess(raw, Zero) THEN Zero
                                     ELSE IF RLess(One, raw) THEN One ELSE raw)
                         /\ (ChannelSum(img, 1) = ChannelSum(img, 2)
                             /\ ChannelSum(img, 2) = ChannelSum(img, 3))
                                => score = One

\* the score of an RGB image came out strictly between 0 and 1
C8_InnerScoreReturned ==
    \E w \in Callers :
        /\ GrayscaleDone(w)
        /\ ShapeLen(arg[w][1]) = 3
        /\ RLess(Zero, ret[w].value[1])
        /\ RLess(ret[w].value[1], One)

\* one half of the pixels pure red, the other half pure blue
HalfRedHalfBlue(img) ==
    /\ ShapeLen(img) = 3
    /\ \A i \in 1..Len(img.px) : img.px[i] \in {Red, Blue}
    /\ Cardinality({i \in 1..Len(img.px) : img.px[i] = Red})
         = Cardinality({i \in 1..Len(img.px) : img.px[i] = Blue})

\* C9: an image whose channel means diverge widely (their variance is above
\* 500), such as one half pure red and half pure blue, scores strictly less
\* than 0.5.
C9_DivergentChannelsScoreLow ==
    \A w \in Callers :
        (GrayscaleDone(w) /\ ShapeLen(arg[w][1]) = 3) =>
            /\ HalfRedHalfBlue(arg[w][1]) => RLess(ret[w].value[1], R(1, 2))
            /\ RLess(RInt(500), MeanVariance(arg[w][1]))
                  => RLess(ret[w].value[1], R(1, 2))

\* the half red, half blue image was scored
C9_RedBlueScored ==
    \E w \in Callers : GrayscaleDone(w) /\ HalfRedHalfBlue(arg[w][1])

Is512(img) == img.tile * img.hb = 512 /\ img.tile * img.wb = 512

\* every channel value is an end of the channel's range
DrawnOver(img, ranges) ==
    \A i \in 1..Len(img.px) : \A c \in 1..3 :
        img.px[i][c] \in {ranges[c][1], ranges[c][2]}

\* channel c takes its smallest and its largest value equally often
Balanced(img, c) ==
    LET vals == {img.px[i][c] : i \in 1..Len(img.px)}
    IN  /\ Cardinality(vals) = 2
        /\ \A x, y \in vals :
              Cardinality({i \in 1..Len(img.px) : img.px[i][c] = x})
                = Cardinality({i \in 1..Len(img.px) : img.px[i][c] = y})

\* every channel a balanced draw, no channel following another
Randomized(img) ==
    /\ ShapeLen(img) = 3
    /\ \A c \in 1..3 : Balanced(img, c)
    /\ \A c, e \in 1..3 :
          c # e => \E i, j \in 1..Len(img.px) :
                      (img.px[i][c] < img.px[j][c]) # (img.px[i][e] < img.px[j][e])

\* C10 (as stated): a 512x512 image whose red, green and blue channels are
\* randomized independently of one another scores below 0.3.
C10_AnyRandomizedImageScoresLow ==
    \A w \in Callers :
        (GrayscaleDone(w) /\ Is512(arg[w][1]) /\ Randomized(arg[w][1])) =>
            RLess(ret[w].value[1], R(3, 10))

\* C10 (amended): a 512x512 image whose channels are randomized
\* independently over the ranges of the test picture (red 100..254, green
\* 50..199, blue 150..254) scores below 0.3.
C10_TestPhotoScoresLow ==
    \A w \in Callers :
        ( /\ GrayscaleDone(w)
          /\ Is512(arg[w][1])
          /\ Randomized(arg[w][1])
          /\ DrawnOver(arg[w][1], PhotoRanges) ) =>
            RLess(ret[w].value[1], R(3, 10))

\* a randomized 512x512 picture over the test's ranges was scored
C10_TestPhotoScored ==
    \E w \in Callers :
        /\ GrayscaleDone(w)
        /\ Is512(arg[w][1])
        /\ Randomized(arg[w][1])
        /\ DrawnOver(arg[w][1], PhotoRanges)

-----------------------------------------------------------------------------
(* The four tiered sub-scores *)

\* the scores caller w has computed so far
Scores(w) == IF result[w] = None THEN <<>> ELSE result[w][1].characteristics

HasScore(w, name) == result[w] # None /\ name \in DOMAIN result[w][1].characteristics

\* C11: the contrast score is 0.8 when the standard deviation s of the local
\* contrast is in the middle band 10 < s < 50, 0.6 when it is in the wider
\* band 5 < s < 80 but not in the middle band, 0.3 when it is outside both;
\* no other value is returned.
C11_ContrastTiers ==
    \A w \in Callers :
        HasScore(w, "contrast_score") =>
            LET s == image[w][1].contrast_std
                score == Scores(w)["contrast_score"]
                middle == 10 < s /\ s < 50
                wider == 5 < s /\ s < 80
            IN  /\ middle => score = R(8, 10)
                /\ (wider /\ ~middle) => score = R(6, 10)
                /\ ~wider => score = R(3, 10)
                /\ score \in {R(8, 10), R(6, 10), R(3, 10)}

\* a standard deviation of exactly 10, the edge of the middle band, scored 0.6
C11_BandEdgeScored ==
    \E w \in Callers :
        /\ HasScore(w, "contrast_score")
        /\ image[w][1].contrast_std = 10
        /\ Scores(w)["contrast_score"] = R(6, 10)

\* C12: the shape score is 0.7 when at least one circle is found, whatever
\* the contour count; otherwise 0.6 when there are more than 5 contours;
\* otherwise (exactly 5 contours, or none) 0.4.
C12_ShapeDecidedInOrder ==
    \A w \in Callers :
        HasScore(w, "shape_score") =>
            LET img == image[w][1]
                score == Scores(w)["shape_score"]
            IN  /\ img.circles >= 1 => score = R(7, 10)
                /\ (img.circles = 0 /\ img.contours > 5) => score = R(6, 10)
                /\ (img.circles = 0 /\ img.contours <= 5) => score = R(4, 10)

\* an image with a circle and more than 5 contours scored 0.7
C12_CircleWithManyContoursScored ==
    \E w \in Callers :
        /\ HasScore(w, "shape_score")
        /\ image[w][1].circles >= 1
        /\ image[w][1].contours > 5
        /\ Scores(w)["shape_score"] = R(7, 10)

\* an image without circles and with exactly 5 contours scored 0.4
C12_FiveContoursScored ==
    \E w \in Callers :
        /\ HasScore(w, "shape_score")
        /\ image[w][1].circles = 0
        /\ image[w][1].contours = 5
        /\ Scores(w)["shape_score"] = R(4, 10)

\* the variance of four numbers: (4 * sum of squares - square of the sum) / 16
VarianceOfFour(m) ==
    LET total == RAdd(m[1], RAdd(m[2], RAdd(m[3], m[4])))
        squares == RAdd(RMul(m[1], m[1]), RAdd(RMul(m[2], m[2]),
                   RAdd(RMul(m[3], m[3]), RMul(m[4], m[4]))))
    IN  RDivInt(RSub(RMul(RInt(4), squares), RMul(total, total)), 16)

\* the image is smaller than a corner patch in height and in width
SmallerThanPatch(img) ==
    img.tile * img.hb < CornerPatch /\ img.tile * img.wb < CornerPatch

\* the image is four tiles, each at least a corner patch: its corner patches
\* lie in one tile each
FourFlatCorners(img) == img.hb = 2 /\ img.wb = 2 /\ img.tile >= CornerPatch

\* C13: the artifact score is 0.7 when the variance of the four corner-patch
\* means is strictly below 100 and 0.4 otherwise (exactly 100 gives 0.4); an
\* image smaller than the 50x50 patch is scored with one of the two values,
\* the step does not raise.
C13_ArtifactByCornerVariance ==
    \A w \in Callers :
        /\ HasScore(w, "artifact_score") =>
              LET img == image[w][1]
                  score == Scores(w)["artifact_score"]
                  v == VarianceOfFour(corner_means(img, gray[w]))
              IN  /\ score = (IF RLess(v, RInt(100)) THEN R(7, 10) ELSE R(4, 10))
                  /\ v = RInt(100) => score = R(4, 10)
                  /\ FourFlatCorners(img) =>
                        (score = R(7, 10)) <=>
                            RLess(VarianceOfFour([k \in 1..4 |-> RInt(gray[w][k])]),
                                  RInt(100))
                  /\ SmallerThanPatch(img) => score \in {R(7, 10), R(4, 10)}
        /\ (HasScore(w, "shape_score") /\ pc[w] # "artifact") =>
              HasScore(w, "artifact_score")

\* corner means 0, 20, 0, 20 (variance exactly 100) scored 0.4
C13_VarianceExactly100Scored ==
    \E w \in Callers :
        /\ HasScore(w, "artifact_score")
        /\ FourFlatCorners(image[w][1])
        /\ [k \in 1..4 |-> gray[w][k]] = <<0, 20, 0, 20>>
        /\ Scores(w)["artifact_score"] = R(4, 10)

\* an image smaller than the patch was scored
C13_SmallImageScored ==
    \E w \in Callers :
        /\ HasScore(w, "artifact_score")
        /\ SmallerThanPatch(image[w][1])
        /\ image[w][1].wb = 2

\* the leading bins h of a histogram whose other bins are empty: the number
\* of bins higher than both neighbours and than a tenth of the highest bin
RECURSIVE HighestOf(_)
HighestOf(h) ==
    IF h = <<>> THEN 0 ELSE Max2(Head(h), HighestOf(Tail(h)))

SignificantPeaks(h) ==
    LET at(k) == IF 1 <= k /\ k <= Len(h) THEN h[k] ELSE 0
    IN  Cardinality({k \in 2..(Len(h) + 1) :
            /\ k <= 255
            /\ at(k) > at(k - 1)
            /\ at(k) > at(k + 1)
            /\ 10 * at(k) > HighestOf(h)})

\* C14: the histogram score is 0.8 when the smoothed histogram has 1, 2 or 3
\* strict local maxima higher than 10% of its largest value, and 0.5 when it
\* has none or at least 4.
C14_HistogramByPeakCount ==
    \A w \in Callers :
        HasScore(w, "histogram_score") =>
            LET n == SignificantPeaks(image[w][1].hist_smooth)
                score == Scores(w)["histogram_score"]
            IN  /\ n \in {1, 2, 3} => score = R(8, 10)
                /\ (n = 0 \/ n >= 4) => score = R(5, 10)

\* a histogram with four significant peaks scored 0.5
C14_FourPeaksScored ==
    \E w \in Callers :
        /\ HasScore(w, "histogram_score")
        /\ SignificantPeaks(image[w][1].hist_smooth) = 4
        /\ Scores(w)["histogram_score"] = R(5, 10)

\* a histogram without a significant peak scored 0.5
C14_NoPeakScored ==
    \E w \in Callers :
        /\ HasScore(w, "histogram_score")
        /\ SignificantPeaks(image[w][1].hist_smooth) = 0
        /\ Scores(w)["histogram_score"] = R(5, 10)

\* a call of validate_image has returned
ValidateImageDone(w) == pc[w] = "done" /\ entry[w] = "validate_image"

\* the file exists, can be examined, and is larger than max_file_size
Oversized(f) == f.access = "ok" /\ f.size > 50 * 1024 * 1024

HasError(res, text) == \E i \in 1..Len(res.errors) : res.errors[i].msg = text

\* C15: for every file larger than max_file_size (50 MB) validate_image
\* returns is_valid False with a 'File too large' error, and the file is
\* neither decoded nor scored.
C15_OversizedRejectedBeforeDecoding ==
    \A w \in Callers :
        /\ (ValidateImageDone(w) /\ Oversized(arg[w][1])) =>
              /\ ret[w].raised = ""
              /\ ~ret[w].value[1].is_valid
              /\ HasError(ret[w].value[1], "File too large: MB")
              /\ "characteristics" \notin DOMAIN ret[w].value[1]
        /\ (entry[w] = "validate_image" /\ arg[w] # None /\ Oversized(arg[w][1])) =>
              /\ pc[w] \in {"basic", "done"}
              /\ image[w] = None
              /\ gray[w] = <<>>
              /\ result[w] = None

\* validate_image returned for a decodable .jpg one byte over the limit
C15_OversizedReturned ==
    \E w \in Callers :
        /\ ValidateImageDone(w)
        /\ Oversized(arg[w][1])
        /\ arg[w][1].size = 50 * 1024 * 1024 + 1
        /\ arg[w][1].decodable
        /\ Lower(arg[w][1].suffix) = ".jpg"
        /\ ret[w].value[1].errors = <<MsgNum("File too large: MB", 500)>>

-----------------------------------------------------------------------------
(* Text.  A str is the sequence of its characters, each a string of length *)
(* one; LongNines is the one exception, a single element standing for a    *)
(* run of 5000 characters '9'.                                             *)

LowerLetters ==
    <<"a", "b", "c", "d", "e", "f", "g", "h", "i", "j", "k", "l", "m",
      "n", "o", "p", "q", "r", "s", "t", "u", "v", "w", "x", "y",
      "z">>
UpperLetters ==
    <<"A", "B", "C", "D", "E", "F", "G", "H", "I", "J", "K", "L", "M",
      "N", "O", "P", "Q", "R", "S", "T", "U", "V", "W", "X", "Y",
      "Z">>
DigitChars ==
    <<"0", "1", "2", "3", "4", "5", "6", "7", "8", "9">>

LongNines == "9 (5000 times)"

\* sys.get_int_max_str_digits() of Python 3.11, the limit of int(str)
MaxStrDigits == 4300

\* str.upper() and str.lower()
UpperChar(c) ==
    IF \E i \in 1..26 : LowerLetters[i] = c
    THEN UpperLetters[CHOOSE i \in 1..26 : LowerLetters[i] = c] ELSE c

LowerChar(c) ==
    IF \E i \in 1..26 : UpperLetters[i] = c
    THEN LowerLetters[CHOOSE i \in 1..26 : UpperLetters[i] = c] ELSE c

upper(text) == [i \in 1..Len(text) |-> UpperChar(text[i])]
lower(text) == [i \in 1..Len(text) |-> LowerChar(text[i])]

\* \d and \s of re
IsDigit(c) == c = LongNines \/ \E i \in 1..10 : DigitChars[i] = c
IsSpace(c) == c \in {" ", "\n", "\t", "\r"}

\* text[i:].startswith(pat), i counted from 1
StartsAt(text, i, pat) ==
    /\ i + Len(pat) - 1 <= Len(text)
    /\ \A k \in 1..Len(pat) : text[i + k - 1] = pat[k]

\* pat in text
In(pat, text) == \E i \in 1..(Len(text) + 1) : StartsAt(text, i, pat)

\* the first position from i on that does not satisfy the character class
RECURSIVE SkipSpaces(_, _)
SkipSpaces(text, i) ==
    IF i <= Len(text) /\ IsSpace(text[i]) THEN SkipSpaces(text, i + 1) ELSE i

RECURSIVE SkipDigits(_, _)
SkipDigits(text, i) ==
    IF i <= Len(text) /\ IsDigit(text[i]) THEN SkipDigits(text, i + 1) ELSE i

\* the first character of an element
FirstChar(c) == IF c = LongNines THEN "9" ELSE c

\* re.search(key \s* (\d+) tail, text) when greedy, and re.search(key \s* (\d),
\* text) when not: None, or the group of the leftmost match
re_search_digits(text, key, greedy, tail) ==
    LET from(i) == SkipSpaces(text, i + Len(key))
        upto(i) == IF greedy THEN SkipDigits(text, from(i)) ELSE from(i) + 1
        matches(i) == /\ StartsAt(text, i, key)
                      /\ SkipDigits(text, from(i)) > from(i)
                      /\ greedy => StartsAt(text, upto(i), tail)
        found == {i \in 1..Len(text) : matches(i)}
    IN  IF found = {} THEN None
        ELSE LET i == CHOOSE m \in found : \A n \in found : m <= n
             IN  IF greedy THEN Some(SubSeq(text, from(i), upto(i) - 1))
                 ELSE Some(<<FirstChar(text[from(i)])>>)

\* the characters a str of digits has
RECURSIVE DigitCount(_)
DigitCount(ds) ==
    IF ds = <<>> THEN 0
    ELSE (IF Head(ds) = LongNines THEN 5000 ELSE 1) + DigitCount(Tail(ds))

DigitValue(c) == (CHOOSE i \in 1..10 : DigitChars[i] = c) - 1

RECURSIVE Decimal(_)
Decimal(ds) ==
    IF ds = <<>> THEN 0
    ELSE 10 * Decimal(SubSeq(ds, 1, Len(ds) - 1)) + DigitValue(ds[Len(ds)])

\* int(ds): the number, or ValueError past the digit limit
int(ds) ==
    IF DigitCount(ds) > MaxStrDigits THEN Raised("ValueError")
    ELSE Returned(Decimal(ds))

-----------------------------------------------------------------------------
(* src/utils/ai_image_validator.py: the Gemini validator *)

\* the key of the .env template, line 42
PlaceholderKey == "your_google_gemini_api_key_here"

\* mutant of initialize_ai_systems: the placeholder key is taken as a key
initialize_ai_systems_any_key(env) ==
    IF env.key # None /\ env.key # Some("") /\ env.genai = "ok"
    THEN Some("gemini-1.5-flash")
    ELSE None

\* _initialize_ai_systems, lines 34-52: the model, or None without a usable
\* key or when genai.configure / GenerativeModel raises
initialize_ai_systems(env) ==
    IF env.key # None /\ env.key # Some("") /\ env.key # Some(PlaceholderKey)
       /\ env.genai = "ok"
    THEN Some("gemini-1.5-flash")
    ELSE None

\* AIImageValidator.__init__, lines 28-32
AIImageValidator(env) ==
    [supported_formats |-> <<".jpg", ".jpeg", ".png", ".dcm", ".dicom">>,
     max_file_size |-> 50 * 1024 * 1024,
     gemini_model |-> initialize_ai_systems(env)]

\* _load_image_for_ai, lines 135-152
load_image_for_ai(f) ==
    IF f # None /\ f[1].access = "ok" /\ f[1].decodable THEN f[1].image ELSE None

\* the literals _parse_gemini_response looks for
StatusYes ==
    <<"M", "A", "M", "M", "O", "G", "R", "A", "P", "H", "Y", "_", "S",
      "T", "A", "T", "U", "S", ":", " ", "Y", "E", "S">>
StatusNo ==
    <<"M", "A", "M", "M", "O", "G", "R", "A", "P", "H", "Y", "_", "S",
      "T", "A", "T", "U", "S", ":", " ", "N", "O">>
ConfidenceKey ==
    <<"C", "O", "N", "F", "I", "D", "E", "N", "C", "E", ":">>

\* the headings put before the analysis text, each one element
GeminiHeading == "** Gemini AI Medical Analysis: **"
GeminiFailed == "Gemini AI analysis failed: "
GeminiUnavailable == "Gemini AI not available - using development mode"
DevelopmentModeText == "** DEVELOPMENT MODE ACTIVE **"

\* _parse_gemini_response, lines 216-244
parse_gemini_response(ai_response) ==
    LET confidence_match ==
            re_search_digits(upper(ai_response), ConfidenceKey, TRUE, <<"%">>)
    IN  [confidence |-> IF confidence_match # None
                        THEN R(Decimal(confidence_match[1]), 100) ELSE RInt(0),
         ai_analysis |-> <<GeminiHeading>> \o ai_response,
         is_mammography |-> In(StatusYes, upper(ai_response))]

\* what generate_content and response.text do in a run: raise, or give a text
Replies(text) == [raises |-> "", text |-> text]
Fails(exc) == [raises |-> exc, text |-> <<>>]

\* _analyze_with_gemini_ai, lines 154-214
analyze_with_gemini_ai(s, ai) ==
    IF s.gemini_model = None
    THEN [confidence |-> R(1, 2), ai_analysis |-> <<GeminiUnavailable>>,
          is_mammography |-> FALSE]
    ELSE IF ai.raises # ""
    THEN [confidence |-> RInt(0), ai_analysis |-> <<GeminiFailed, ai.raises>>,
          is_mammography |-> FALSE]
    ELSE parse_gemini_response(ai.text)

\* validate_image_simple, lines 267-275
NewSimpleResult(s) ==
    [is_valid |-> FALSE, is_mammography |-> FALSE, confidence |-> RInt(0),
     ai_analysis |-> <<>>, errors |-> <<>>, warnings |-> <<>>,
     method |-> IF s.gemini_model # None THEN "gemini_ai" ELSE "development_mode"]

\* lines 300-309: the update with the AI result and the decision on it
decide_on_confidence(vr, ai_result) ==
    LET updated == ai_result @@ vr
    IN  IF RLess(R(6, 10), updated.confidence)
        THEN [updated EXCEPT !.is_valid = TRUE,
                             !.is_mammography = ai_result.is_mammography]
        ELSE [updated EXCEPT !.errors = Append(@,
                 MsgNum("AI confidence too low: %", Fixed(updated.confidence, 1000)))]

\* lines 311-314: the except around the event loop
analysis_failed(vr, exc) ==
    [vr EXCEPT !.errors = Append(@, MsgExt("AI analysis failed: ", exc)),
               !.warnings = Append(@, Msg("Falling back to development mode"))]

\* lines 318-339
development_fallback(s, vr) ==
    IF s.gemini_model = None \/ vr.errors # <<>>
    THEN [vr EXCEPT !.is_valid = TRUE, !.is_mammography = TRUE,
                    !.confidence = R(8, 10),
                    !.ai_analysis = <<DevelopmentModeText>>,
                    !.warnings = <<Msg("AI validation system in development mode")>>,
                    !.method = "development_mode",
                    !.errors = <<>>]
    ELSE vr

-----------------------------------------------------------------------------
(* Inputs of the Gemini validator and of the app *)

Kinds == {"mammography", "regular_photo", "text_document", "xray"}

\* the 512x512 pictures of test_real_images.py, lines 25-89
TestPicture(kind) ==
    LET px == CASE kind = "mammography" -> <<Black, Gray128, Gray128, Black>>
                [] kind = "regular_photo" ->
                      <<<<100, 199, 150>>, <<254, 50, 254>>,
                        <<254, 199, 150>>, <<100, 50, 254>>>>
                [] kind = "text_document" -> <<White, Black, White, White>>
                [] OTHER -> <<Black, Gray20, Gray19, Black>>
    IN  MkImage(3, "uint8", 256, 2, 2, px, 11, 0, 6, <<0, 5>>)

\* a file, and what it is a picture of
Upload(kind, access, decodable) ==
    MkFile(access, ".jpg", 2 * MinFileSize, decodable, TestPicture(kind))
        @@ [kind |-> kind]

UploadedFiles == { Upload(k, "ok", d) : k \in Kinds, d \in BOOLEAN }

\* paths a caller can pass: also one that does not exist and one that cannot
\* be examined
Paths ==
    UploadedFiles \cup { Upload("mammography", a, FALSE) : a \in {"missing", "oserror"} }

\* GOOGLE_API_KEY after load_dotenv, and whether genai accepts to be set up
Environments ==
    { [key |-> None, genai |-> "ok"],
      [key |-> Some(""), genai |-> "ok"],
      [key |-> Some(PlaceholderKey), genai |-> "ok"],
      [key |-> Some("AIza-key"), genai |-> "ok"],
      [key |-> Some("AIza-key"), genai |-> "raises"] }

StatusLine(yes) == IF yes THEN StatusYes ELSE StatusNo
ConfidenceLine(digits) == ConfidenceKey \o <<" ">> \o digits \o <<"%">>
Reply(yes, digits) == StatusLine(yes) \o <<"\n">> \o ConfidenceLine(digits)

Percentages ==
    { <<"0">>, <<"4", "0">>, <<"6", "0">>, <<"6", "1">>, <<"7", "4">>,
      <<"7", "5">>, <<"9", "5">>, <<"1", "5", "0">> }

\* texts the model can answer with: the format asked for, in lower case,
\* without a confidence, with a fraction, with the brackets of the prompt,
\* and nothing
GeminiTexts ==
    { Reply(y, d) : y \in BOOLEAN, d \in Percentages }
    \cup { lower(Reply(TRUE, <<"8", "5">>)),
           StatusYes,
           StatusYes \o <<"\n">> \o ConfidenceKey \o <<" ", "8", "5", ".", "5", "%">>,
           StatusLine(FALSE) \o <<"\n">> \o ConfidenceKey \o <<" ", "[", "9", "0", "]", "%">>,
           <<>> }

GeminiBehaviours == { Replies(t) : t \in GeminiTexts } \cup { Fails("ResourceExhausted") }

\* one call, or one run of the script: the file, whether the analysis button
\* was pressed, the environment, the answer of the model, and the exception
\* of the event loop ("" for none)
Run(file, clicked, env, ai, loop) ==
    [file |-> file, clicked |-> clicked, env |-> env, ai |-> ai, loop |-> loop]

ValidationCalls ==
    { Run(Some(f), FALSE, e, a, l) :
        f \in Paths, e \in Environments, a \in GeminiBehaviours,
        l \in {"", "RuntimeError"} }

AppRuns ==
    { Run(Some(f), c, e, a, "") :
        f \in UploadedFiles, c \in BOOLEAN, e \in Environments,
        a \in GeminiBehaviours }
    \cup { Run(None, FALSE, e, Fails(""), "") : e \in Environments }

-----------------------------------------------------------------------------
(* validate_mammography_with_ai and validate_image_simple, step by step *)

\* image_path of the call: the temporary copy in the app, the argument otherwise
PathOf(w) == IF entry[w] = "main" THEN temp_file[w] ELSE arg[w][1].file

\* return validation_result: to main, line 99, or to the caller
ReturnSimple(w, out) ==
    /\ validation_result' = [validation_result EXCEPT ![w] = Some(out)]
    /\ IF entry[w] = "main"
       THEN Goto(w, "display") /\ UNCHANGED ret
       ELSE Finish(w, Returned(out))

(* validate_mammography_with_ai(image_path), line 355 *)
CallValidateMammographyWithAI(w, runs) ==
    /\ pc[w] = "idle"
    /\ \E run \in runs :
        /\ entry' = [entry EXCEPT ![w] = "validate_mammography_with_ai"]
        /\ arg' = [arg EXCEPT ![w] = Some(run)]
    /\ Goto(w, "create_ai_validator")
    /\ UNCHANGED <<temp_file, cancer_analysis, self, image, gray,
                   validation_result, result, ret, lastResult, remembered>>

(* create_ai_validator(), lines 350-352 and 28-52 *)
CreateAIValidator(w) ==
    /\ pc[w] = "create_ai_validator"
    /\ self' = AIImageValidator(arg[w][1].env)
    /\ Goto(w, "simple")
    /\ UNCHANGED <<temp_file, cancer_analysis, entry, arg, image, gray,
                   validation_result, result, ret, lastResult, remembered>>

(* lines 267-287, and 343-347 when Path.exists raises *)
SimpleChecks(w) ==
    /\ pc[w] = "simple"
    /\ LET vr == NewSimpleResult(self)
           f == PathOf(w)
           loaded == load_image_for_ai(f)
           fail(e) == [vr EXCEPT !.errors = Append(@, e)]
       IN  IF f # None /\ f[1].access = "oserror"
           THEN /\ ReturnSimple(w, fail(MsgExt("Validation error: ", "PermissionError")))
                /\ UNCHANGED image
           ELSE IF f = None \/ f[1].access = "missing"
           THEN /\ ReturnSimple(w, fail(Msg("File does not exist")))
                /\ UNCHANGED image
           ELSE /\ image' = [image EXCEPT ![w] = loaded]
                /\ IF loaded = None
                   THEN ReturnSimple(w, fail(Msg("Failed to load image")))
                   ELSE /\ validation_result' =
                              [validation_result EXCEPT ![w] = Some(vr)]
                        /\ Goto(w, IF self.gemini_model # None
                                   THEN "gemini" ELSE "fallback")
                        /\ UNCHANGED ret
    /\ UNCHANGED <<temp_file, cancer_analysis, self, entry, arg, gray, result,
                   lastResult, remembered>>

(* lines 290-298 and 311-314 *)
RunGemini(w) ==
    /\ pc[w] = "gemini"
    /\ IF arg[w][1].loop # ""
       THEN /\ validation_result' = [validation_result EXCEPT ![w] =
                  Some(analysis_failed(validation_result[w][1], arg[w][1].loop))]
            /\ Goto(w, "fallback")
            /\ UNCHANGED result
       ELSE /\ result' = [result EXCEPT ![w] =
                  Some(analyze_with_gemini_ai(self, arg[w][1].ai))]
            /\ Goto(w, "decide_ai")
            /\ UNCHANGED validation_result
    /\ UNCHANGED <<temp_file, cancer_analysis, self, entry, arg, image, gray,
                   ret, lastResult, remembered>>

(* lines 300-309 *)
DecideOnConfidence(w) ==
    /\ pc[w] = "decide_ai"
    /\ validation_result' = [validation_result EXCEPT ![w] =
          Some(decide_on_confidence(validation_result[w][1], result[w][1]))]
    /\ Goto(w, "fallback")
    /\ UNCHANGED <<temp_file, cancer_analysis, self, entry, arg, image, gray,
                   result, ret, lastResult, remembered>>

(* lines 317-347 *)
DevelopmentFallback(w) ==
    /\ pc[w] = "fallback"
    /\ ReturnSimple(w, development_fallback(self, validation_result[w][1]))
    /\ UNCHANGED <<temp_file, cancer_analysis, self, entry, arg, image, gray,
                   result, lastResult, remembered>>

SimpleValidator(w) ==
    \/ CreateAIValidator(w)
    \/ SimpleChecks(w)
    \/ RunGemini(w)
    \/ DecideOnConfidence(w)
    \/ DevelopmentFallback(w)

-----------------------------------------------------------------------------
(* src/ai/cancer_classifier.py *)

\* the keys _parse_ai_response searches for, quotes and colon included
ProbabilityKey ==
    <<"\"", "c", "a", "n", "c", "e", "r", "_", "p", "r", "o", "b",
      "a", "b", "i", "l", "i", "t", "y", "\"", ":">>
BiRadsKey ==
    <<"\"", "b", "i", "_", "r", "a", "d", "s", "_", "c", "a", "t",
      "e", "g", "o", "r", "y", "\"", ":">>

\* the words of lines 145 and 147
AlarmWords ==
    { <<"m", "a", "l", "i", "g", "n", "a", "n", "t">>,
      <<"c", "a", "n", "c", "e", "r">>,
      <<"s", "u", "s", "p", "i", "c", "i", "o", "u", "s">>,
      <<"c", "o", "n", "c", "e", "r", "n", "i", "n", "g">> }
BenignWords ==
    { <<"p", "r", "o", "b", "a", "b", "l", "y", " ", "b", "e", "n",
        "i", "g", "n">>,
      <<"l", "i", "k", "e", "l", "y", " ", "b", "e", "n", "i", "g",
        "n">> }

\* the fields of lines 178-184, as "name":
FieldKeys ==
    [ primary_findings |->
        <<"\"", "p", "r", "i", "m", "a", "r", "y", "_", "f", "i", "n",
          "d", "i", "n", "g", "s", "\"", ":">>,
      mass_detected |->
        <<"\"", "m", "a", "s", "s", "_", "d", "e", "t", "e", "c", "t",
          "e", "d", "\"", ":">>,
      calcifications_detected |->
        <<"\"", "c", "a", "l", "c", "i", "f", "i", "c", "a", "t", "i",
          "o", "n", "s", "_", "d", "e", "t", "e", "c", "t", "e",
          "d", "\"", ":">>,
      architectural_distortion |->
        <<"\"", "a", "r", "c", "h", "i", "t", "e", "c", "t", "u", "r",
          "a", "l", "_", "d", "i", "s", "t", "o", "r", "t", "i",
          "o", "n", "\"", ":">>,
      asymmetry_present |->
        <<"\"", "a", "s", "y", "m", "m", "e", "t", "r", "y", "_", "p",
          "r", "e", "s", "e", "n", "t", "\"", ":">>,
      clinical_recommendations |->
        <<"\"", "c", "l", "i", "n", "i", "c", "a", "l", "_", "r", "e",
          "c", "o", "m", "m", "e", "n", "d", "a", "t", "i", "o",
          "n", "s", "\"", ":">>,
      additional_notes |->
        <<"\"", "a", "d", "d", "i", "t", "i", "o", "n", "a", "l", "_",
          "n", "o", "t", "e", "s", "\"", ":">> ]

\* the first position from i on holding character c, Len(text) + 1 if none
RECURSIVE Find(_, _, _)
Find(text, i, c) ==
    IF i > Len(text) \/ text[i] = c THEN i ELSE Find(text, i + 1, c)

\* re.search(key \s* open ([^close]*) close, text): None, or the group
re_search_enclosed(text, key, open, close) ==
    LET from(i) == SkipSpaces(text, i + Len(key))
        matches(i) == /\ StartsAt(text, i, key)
                      /\ StartsAt(text, from(i), <<open>>)
                      /\ Find(text, from(i) + 1, close) <= Len(text)
        found == {i \in 1..Len(text) : matches(i)}
    IN  IF found = {} THEN None
        ELSE LET i == CHOOSE m \in found : \A n \in found : m <= n
             IN  Some(SubSeq(text, from(i) + 1, Find(text, from(i) + 1, close) - 1))

\* _extract_field, lines 206-228
extract_field(text, field_name) ==
    LET quoted == re_search_enclosed(text, FieldKeys[field_name], "\"", "\"")
        bracketed == re_search_enclosed(text, FieldKeys[field_name], "[", "]")
    IN  IF quoted # None THEN quoted[1]
        ELSE IF bracketed # None THEN bracketed[1]
        ELSE <<"AI analysis in progress">>

\* mutant of fallback_probability: the benign phrases are looked for first
fallback_probability_benign_first(ai_response) ==
    IF \E word \in BenignWords : In(word, lower(ai_response)) THEN 15
    ELSE IF \E word \in AlarmWords : In(word, lower(ai_response)) THEN 75
    ELSE 5

\* lines 145-150: the probability when the response names none
fallback_probability(ai_response) ==
    IF \E word \in AlarmWords : In(word, lower(ai_response)) THEN 75
    ELSE IF \E word \in BenignWords : In(word, lower(ai_response)) THEN 15
    ELSE 5

\* mutant of auto_bi_rads: the ends of the bands go to the lower category
auto_bi_rads_exclusive(cancer_probability) ==
    IF cancer_probability > 95 THEN 6
    ELSE IF cancer_probability > 50 THEN 5
    ELSE IF cancer_probability > 10 THEN 4
    ELSE IF cancer_probability > 2 THEN 3
    ELSE 2

\* lines 158-167: the category when the response names none
auto_bi_rads(cancer_probability) ==
    IF cancer_probability >= 95 THEN 6
    ELSE IF cancer_probability >= 50 THEN 5
    ELSE IF cancer_probability >= 10 THEN 4
    ELSE IF cancer_probability >= 2 THEN 3
    ELSE 2

\* lines 170-175
risk_level_of(cancer_probability) ==
    IF cancer_probability >= 50 THEN "HIGH"
    ELSE IF cancer_probability >= 10 THEN "MODERATE"
    ELSE "LOW"

\* lines 187-192
urgency_level_of(cancer_probability) ==
    IF cancer_probability >= 75 THEN "IMMEDIATE"
    ELSE IF cancer_probability >= 25 THEN "URGENT"
    ELSE "ROUTINE"

\* lines 196-204: the dictionary of the except branch
parsing_failed(ai_response, exc) ==
    [error |-> MsgExt("AI response parsing failed: ", exc),
     success |-> FALSE,
     raw_ai_response |-> ai_response,
     cancer_probability |-> 0,
     bi_rads_category |-> 1,
     risk_level |-> "UNKNOWN"]

\* _parse_ai_response, lines 116-204
parse_ai_response(ai_response) ==
    LET probability_match == re_search_digits(ai_response, ProbabilityKey, TRUE, <<>>)
        birads_match == re_search_digits(ai_response, BiRadsKey, FALSE, <<>>)
        matched == int(probability_match[1])
        cancer_probability ==
            IF probability_match # None THEN matched.value[1]
            ELSE fallback_probability(ai_response)
        bi_rads_category ==
            IF birads_match # None THEN int(birads_match[1]).value[1]
            ELSE auto_bi_rads(cancer_probability)
    IN  IF probability_match # None /\ matched.raised # ""
        THEN parsing_failed(ai_response, matched.raised)
        ELSE [success |-> TRUE,
              raw_ai_response |-> ai_response,
              cancer_probability |-> cancer_probability,
              bi_rads_category |-> bi_rads_category,
              risk_level |-> risk_level_of(cancer_probability),
              primary_findings |-> extract_field(ai_response, "primary_findings"),
              mass_detected |-> extract_field(ai_response, "mass_detected"),
              calcifications_detected |->
                  extract_field(ai_response, "calcifications_detected"),
              architectural_distortion |->
                  extract_field(ai_response, "architectural_distortion"),
              asymmetry_present |-> extract_field(ai_response, "asymmetry_present"),
              clinical_recommendations |->
                  extract_field(ai_response, "clinical_recommendations"),
              urgency_level |-> urgency_level_of(cancer_probability),
              additional_notes |-> extract_field(ai_response, "additional_notes")]

\* CancerClassifier.__init__, lines 20-27: the exception it ends with, ""
\* for none
classifier_raises(env) ==
    IF env.key = None \/ env.key = Some("") THEN "ValueError"
    ELSE IF env.genai # "ok" THEN "Exception"
    ELSE ""

CancerClassifier(env) == [api_key |-> env.key[1], model |-> "gemini-1.5-flash"]

\* mutant of analysis_failed_result: the category of the parsing failure
analysis_failed_as_parsing(exc) ==
    [error |-> MsgExt("AI cancer analysis failed: ", exc),
     cancer_probability |-> 0,
     bi_rads_category |-> 1,
     risk_level |-> "UNKNOWN",
     method |-> "gemini_ai_cancer_analysis",
     success |-> FALSE]

\* analyze_for_cancer, lines 106-114
analysis_failed_result(exc) ==
    [error |-> MsgExt("AI cancer analysis failed: ", exc),
     cancer_probability |-> 0,
     bi_rads_category |-> 0,
     risk_level |-> "UNKNOWN",
     method |-> "gemini_ai_cancer_analysis",
     success |-> FALSE]

\* analyze_mammography_for_cancer, lines 244-252
system_error_result(exc) ==
    [error |-> MsgExt("Cancer classification system error: ", exc),
     success |-> FALSE,
     cancer_probability |-> 0,
     bi_rads_category |-> 0,
     risk_level |-> "UNKNOWN",
     method |-> "gemini_ai_cancer_analysis"]

\* lines 100-102
with_metadata(analysis_result) ==
    [method |-> "gemini_ai_cancer_analysis", ai_model |-> "gemini-1.5-flash",
     analysis_type |-> "automatic_cancer_detection"] @@ analysis_result

\* Image.open(image_path), line 84: the exception, "" for none
open_raises(f) ==
    IF f = None \/ f[1].access = "missing" THEN "FileNotFoundError"
    ELSE IF f[1].access = "oserror" THEN "PermissionError"
    ELSE IF ~f[1].decodable THEN "UnidentifiedImageError"
    ELSE ""

ProbabilityEntry(digits) == ProbabilityKey \o <<" ">> \o digits
BiRadsEntry(digits) == BiRadsKey \o <<" ">> \o digits

\* answers of the model to the cancer prompt: the format asked for, numbers
\* outside the scales, prose, a number too long for int, nothing
CancerTexts ==
    { ProbabilityEntry(<<"8", "5">>) \o <<",", "\n">> \o BiRadsEntry(<<"5">>),
      ProbabilityEntry(<<"1", "5", "0">>) \o <<",", "\n">> \o BiRadsEntry(<<"0">>),
      <<"a", " ">> \o (CHOOSE word \in AlarmWords : Head(word) = "s") \o <<" ", "m", "a", "s", "s">>,
      ProbabilityEntry(<<LongNines>>),
      <<>> }

CancerBehaviours == { Replies(t) : t \in CancerTexts } \cup { Fails("ResourceExhausted") }

AnalysisCalls ==
    { Run(Some(f), FALSE, e, a, "") :
        f \in Paths, e \in Environments, a \in CancerBehaviours }

-----------------------------------------------------------------------------
(* analyze_mammography_for_cancer and analyze_for_cancer, step by step *)

SetAnalysis(w, analysis) ==
    /\ cancer_analysis' = [cancer_analysis EXCEPT ![w] = Some(analysis)]
    /\ Goto(w, "analysis_return")

(* analyze_mammography_for_cancer(image_path), line 230 *)
CallAnalyzeMammographyForCancer(w, runs) ==
    /\ pc[w] = "idle"
    /\ \E run \in runs :
        /\ entry' = [entry EXCEPT ![w] = "analyze_mammography_for_cancer"]
        /\ arg' = [arg EXCEPT ![w] = Some(run)]
    /\ Goto(w, "create_classifier")
    /\ UNCHANGED <<temp_file, cancer_analysis, self, image, gray,
                   validation_result, result, ret, lastResult, remembered>>

(* lines 241-252 and 20-27 *)
CreateClassifier(w) ==
    /\ pc[w] = "create_classifier"
    /\ LET exc == classifier_raises(arg[w][1].env)
       IN  IF exc # ""
           THEN SetAnalysis(w, system_error_result(exc)) /\ UNCHANGED self
           ELSE /\ self' = CancerClassifier(arg[w][1].env)
                /\ Goto(w, "open_image")
                /\ UNCHANGED cancer_analysis
    /\ UNCHANGED <<temp_file, entry, arg, image, gray, validation_result,
                   result, ret, lastResult, remembered>>

(* lines 82-88 *)
OpenImage(w) ==
    /\ pc[w] = "open_image"
    /\ LET exc == open_raises(PathOf(w))
       IN  IF exc # ""
           THEN SetAnalysis(w, analysis_failed_result(exc)) /\ UNCHANGED image
           ELSE /\ image' = [image EXCEPT ![w] = PathOf(w)[1].image]
                /\ Goto(w, "generate")
                /\ UNCHANGED cancer_analysis
    /\ UNCHANGED <<temp_file, self, entry, arg, gray, validation_result,
                   result, ret, lastResult, remembered>>

(* lines 91-114 *)
GenerateAnalysis(w) ==
    /\ pc[w] = "generate"
    /\ LET ai == arg[w][1].ai
       IN  IF ai.raises # ""
           THEN SetAnalysis(w, analysis_failed_result(ai.raises)) /\ UNCHANGED result
           ELSE /\ result' = [result EXCEPT ![w] = Some(parse_ai_response(ai.text))]
                /\ SetAnalysis(w, with_metadata(parse_ai_response(ai.text)))
    /\ UNCHANGED <<temp_file, self, entry, arg, image, gray, validation_result,
                   ret, lastResult, remembered>>

(* the dictionary goes to main, line 129, or to the caller *)
ReturnAnalysis(w) ==
    /\ pc[w] = "analysis_return"
    /\ IF entry[w] = "main"
       THEN Goto(w, "show_analysis") /\ UNCHANGED ret
       ELSE Finish(w, Returned(cancer_analysis[w][1]))
    /\ UNCHANGED <<temp_file, cancer_analysis, self, entry, arg, image, gray,
                   validation_result, result, lastResult, remembered>>

Classifier(w) ==
    \/ CreateClassifier(w)
    \/ OpenImage(w)
    \/ GenerateAnalysis(w)
    \/ ReturnAnalysis(w)

-----------------------------------------------------------------------------
(* src/app.py: one run of main() *)

\* mutant of shown_as_validated: is_valid alone opens the analysis
shown_as_validated_any(vr) == vr.is_valid

\* line 102
shown_as_validated(vr) == vr.is_valid /\ vr.is_mammography

\* line 131
analysis_succeeded(analysis) ==
    /\ ("success" \in DOMAIN analysis => analysis.success)
    /\ "error" \notin DOMAIN analysis

(* main(), lines 22-68: the page is drawn, the uploader read *)
RunMain(w, runs) ==
    /\ pc[w] = "idle"
    /\ \E run \in runs :
        /\ entry' = [entry EXCEPT ![w] = "main"]
        /\ arg' = [arg EXCEPT ![w] = Some(run)]
        /\ Goto(w, IF run.file = None THEN "footer" ELSE "save_upload")
    /\ UNCHANGED <<temp_file, cancer_analysis, self, image, gray,
                   validation_result, result, ret, lastResult, remembered>>

(* lines 92-94: the upload is written to a temporary file *)
SaveUpload(w) ==
    /\ pc[w] = "save_upload"
    /\ temp_file' = [temp_file EXCEPT ![w] = arg[w][1].file]
    /\ Goto(w, "create_ai_validator")
    /\ UNCHANGED <<cancer_analysis, self, entry, arg, image, gray,
                   validation_result, result, ret, lastResult, remembered>>

(* line 102 *)
Display(w) ==
    /\ pc[w] = "display"
    /\ Goto(w, IF shown_as_validated(validation_result[w][1])
               THEN "validated" ELSE "validation_failed")
    /\ UNCHANGED <<temp_file, cancer_analysis, self, entry, arg, image, gray,
                   validation_result, result, ret, lastResult, remembered>>

(* lines 103-129: the success banner, the confidence, the button; when the *)
(* button was pressed the cancer analysis is called, the model answering  *)
(* as it will                                                             *)
ShowValidated(w) ==
    /\ pc[w] = "validated"
    /\ IF arg[w][1].clicked
       THEN /\ \E a \in CancerBehaviours :
                  arg' = [arg EXCEPT ![w] = Some([arg[w][1] EXCEPT !.ai = a])]
            /\ Goto(w, "create_classifier")
       ELSE /\ Goto(w, "cleanup")
            /\ UNCHANGED arg
    /\ UNCHANGED <<temp_file, cancer_analysis, self, entry, image, gray,
                   validation_result, result, ret, lastResult, remembered>>

(* lines 248-270 *)
ShowValidationFailed(w) ==
    /\ pc[w] = "validation_failed"
    /\ Goto(w, "cleanup")
    /\ UNCHANGED <<temp_file, cancer_analysis, self, entry, arg, image, gray,
                   validation_result, result, ret, lastResult, remembered>>

(* lines 131-246: the report, or the failure of the analysis *)
ShowAnalysis(w) ==
    /\ pc[w] = "show_analysis"
    /\ Goto(w, "cleanup")
    /\ UNCHANGED <<temp_file, cancer_analysis, self, entry, arg, image, gray,
                   validation_result, result, ret, lastResult, remembered>>

(* lines 101-270: a call of Streamlit or of the report generator raises *)
(* while the results are drawn                                          *)
DisplayRaises(w) ==
    /\ entry[w] = "main"
    /\ pc[w] \in {"display", "validated", "validation_failed", "show_analysis"}
    /\ Goto(w, "except")
    /\ UNCHANGED <<temp_file, cancer_analysis, self, entry, arg, image, gray,
                   validation_result, result, ret, lastResult, remembered>>

(* lines 272-273: the error is shown *)
ShowError(w) ==
    /\ pc[w] = "except"
    /\ Goto(w, "cleanup")
    /\ UNCHANGED <<temp_file, cancer_analysis, self, entry, arg, image, gray,
                   validation_result, result, ret, lastResult, remembered>>

(* lines 275-281: os.unlink(temp_path), on the file the run wrote itself *)
Cleanup(w) ==
    /\ pc[w] = "cleanup"
    /\ temp_file' = [temp_file EXCEPT ![w] = None]
    /\ Goto(w, "footer")
    /\ UNCHANGED <<cancer_analysis, self, entry, arg, image, gray,
                   validation_result, result, ret, lastResult, remembered>>

(* lines 326-329 *)
Footer(w) ==
    /\ pc[w] = "footer"
    /\ Finish(w, Returned(None))
    /\ UNCHANGED <<temp_file, cancer_analysis, self, entry, arg, image, gray,
                   validation_result, result, lastResult, remembered>>

App(w) ==
    \/ SaveUpload(w)
    \/ Display(w)
    \/ ShowValidated(w)
    \/ ShowValidationFailed(w)
    \/ ShowAnalysis(w)
    \/ DisplayRaises(w)
    \/ ShowError(w)
    \/ Cleanup(w)
    \/ Footer(w)

\* one run of the app, or one call of validate_mammography_with_ai or of
\* analyze_mammography_for_cancer
NextAI ==
    \/ RunMain(1, AppRuns)
    \/ CallValidateMammographyWithAI(1, ValidationCalls)
    \/ CallAnalyzeMammographyForCancer(1, AnalysisCalls)
    \/ App(1)
    \/ SimpleValidator(1)
    \/ Classifier(1)

SpecAI == Init /\ [][NextAI]_vars

-----------------------------------------------------------------------------
(* _parse_ai_response on its own *)

\* digits a response can give as cancer_probability: the ends of the BI-RADS
\* bands, a number above 100 and one too long for int
ProbabilityDigits ==
    { <<"0">>, <<"1">>, <<"2">>, <<"9">>, <<"1", "0">>, <<"4", "9">>,
      <<"5", "0">>, <<"9", "4">>, <<"9", "5">>, <<"1", "0", "0">>,
      <<"1", "5", "0">>, <<LongNines>> }

BiRadsDigits == { <<"0">>, <<"1">>, <<"3">>, <<"6">>, <<"7">>, <<"1", "0">> }

Words(picked) == CHOOSE word \in AlarmWords \cup BenignWords : Head(word) = picked

\* prose around the numbers: none, an alarm word, a benign phrase, both, and
\* a benign phrase in capitals
Prose ==
    { <<>>,
      Words("m"),
      Words("p"),
      Words("l") \o <<",", " ", "n", "o", " ">> \o Words("c"),
      upper(Words("l")) }

\* responses: with and without each number, followed by the prose
ParseTexts ==
    { p \o <<",", "\n">> \o b \o <<"\n">> \o words :
        p \in {<<>>} \cup { ProbabilityEntry(d) : d \in ProbabilityDigits },
        b \in {<<>>} \cup { BiRadsEntry(d) : d \in BiRadsDigits },
        words \in Prose }

(* _parse_ai_response(ai_response) *)
CallParseAIResponse(w, texts) ==
    /\ pc[w] = "idle"
    /\ \E text \in texts :
        /\ entry' = [entry EXCEPT ![w] = "_parse_ai_response"]
        /\ arg' = [arg EXCEPT ![w] = Some(text)]
    /\ Goto(w, "parse")
    /\ UNCHANGED <<temp_file, cancer_analysis, self, image, gray,
                   validation_result, result, ret, lastResult, remembered>>

(* lines 121-204 *)
ReturnParse(w) ==
    /\ pc[w] = "parse"
    /\ result' = [result EXCEPT ![w] = Some(parse_ai_response(arg[w][1]))]
    /\ Finish(w, Returned(parse_ai_response(arg[w][1])))
    /\ UNCHANGED <<temp_file, cancer_analysis, self, entry, arg, image, gray,
                   validation_result, lastResult, remembered>>

NextParse ==
    \/ CallParseAIResponse(1, ParseTexts)
    \/ ReturnParse(1)

SpecParse == Init /\ [][NextParse]_vars

-----------------------------------------------------------------------------
(* src/utils/medical_reporter.py *)

\* analysis.get(key, default)
Get(analysis, key, default) ==
    IF key \in DOMAIN analysis THEN analysis[key] ELSE default

\* mutant of get_followup_schedule: the BI-RADS category is looked at first
get_followup_schedule_birads_first(bi_rads, urgency) ==
    IF bi_rads >= 4 THEN "Follow-up within 2-4 weeks for tissue sampling"
    ELSE IF bi_rads = 3 THEN "Short-term follow-up in 6 months"
    ELSE IF urgency = "IMMEDIATE" THEN "Immediate consultation within 24-48 hours"
    ELSE IF urgency = "URGENT" THEN "Urgent follow-up within 1-2 weeks"
    ELSE "Routine annual screening"

\* _get_followup_schedule, lines 246-257
get_followup_schedule(bi_rads, urgency) ==
    IF urgency = "IMMEDIATE" THEN "Immediate consultation within 24-48 hours"
    ELSE IF urgency = "URGENT" THEN "Urgent follow-up within 1-2 weeks"
    ELSE IF bi_rads >= 4 THEN "Follow-up within 2-4 weeks for tissue sampling"
    ELSE IF bi_rads = 3 THEN "Short-term follow-up in 6 months"
    ELSE "Routine annual screening"

\* _generate_recommendations, lines 210-232: the parts of the text that are
\* computed
generate_recommendations(analysis) ==
    LET urgency == Get(analysis, "urgency_level", "ROUTINE")
        bi_rads == Get(analysis, "bi_rads_category", 1)
        probability == Get(analysis, "cancer_probability", 0)
    IN  [followup_schedule |-> get_followup_schedule(bi_rads, urgency),
         priority_level |-> urgency,
         risk_assessment |-> <<Get(analysis, "risk_level", "LOW"), probability>>]

\* categories and urgencies a caller can pass: the three urgencies of the
\* classifier, one in lower case and one that is none of them
ScheduleArgs ==
    { [bi_rads |-> b, urgency |-> u] :
        b \in 0..7,
        u \in {"IMMEDIATE", "URGENT", "ROUTINE", "urgent", "UNKNOWN"} }

(* _get_followup_schedule(bi_rads, urgency) *)
CallGetFollowupSchedule(w, args) ==
    /\ pc[w] = "idle"
    /\ \E a \in args :
        /\ entry' = [entry EXCEPT ![w] = "_get_followup_schedule"]
        /\ arg' = [arg EXCEPT ![w] = Some(a)]
    /\ Goto(w, "schedule")
    /\ UNCHANGED <<temp_file, cancer_analysis, self, image, gray,
                   validation_result, result, ret, lastResult, remembered>>

(* lines 248-257 *)
ReturnSchedule(w) ==
    /\ pc[w] = "schedule"
    /\ Finish(w, Returned(get_followup_schedule(arg[w][1].bi_rads,
                                                arg[w][1].urgency)))
    /\ UNCHANGED <<temp_file, cancer_analysis, self, entry, arg, image, gray,
                   validation_result, result, lastResult, remembered>>

(* _generate_recommendations(analysis), on what _parse_ai_response made of *)
(* a response                                                            *)
CallGenerateRecommendations(w, texts) ==
    /\ pc[w] = "idle"
    /\ \E text \in texts :
        /\ entry' = [entry EXCEPT ![w] = "_generate_recommendations"]
        /\ arg' = [arg EXCEPT ![w] = Some(parse_ai_response(text))]
    /\ Goto(w, "recommend")
    /\ UNCHANGED <<temp_file, cancer_analysis, self, image, gray,
                   validation_result, result, ret, lastResult, remembered>>

(* lines 213-232 *)
ReturnRecommendations(w) ==
    /\ pc[w] = "recommend"
    /\ Finish(w, Returned(generate_recommendations(arg[w][1])))
    /\ UNCHANGED <<temp_file, cancer_analysis, self, entry, arg, image, gray,
                   validation_result, result, lastResult, remembered>>

NextReport ==
    \/ CallGetFollowupSchedule(1, ScheduleArgs)
    \/ ReturnSchedule(1)
    \/ CallGenerateRecommendations(1, ParseTexts)
    \/ ReturnRecommendations(1)

SpecReport == Init /\ [][NextReport]_vars

-----------------------------------------------------------------------------
(* Properties of the Gemini validator, the classifier and the app *)

\* C16 (as stated): an upload is shown as a validated mammography, and the
\* cancer analysis offered, only when the AI analysis of that image produced
\* a confidence of at least 75%.
C16_ValidatedOnlyFromSeventyFivePercent ==
    \A w \in Callers :
        (entry[w] = "main" /\ pc[w] = "validated") =>
            /\ result[w] # None
            /\ RLeq(R(75, 100), result[w][1].confidence)

\* a call of validate_mammography_with_ai has returned
SimpleDone(w) == pc[w] = "done" /\ entry[w] = "validate_mammography_with_ai"

\* the picture of the call is not a mammography, and the model, if it
\* answers, does not say it is one
NotAMammography(run) ==
    /\ run.file[1].kind \in {"regular_photo", "text_document", "xray"}
    /\ ~In(StatusYes, upper(run.ai.text))

\* C17 (as stated): for an image that is not a mammography the result of
\* validate_mammography_with_ai never has both is_valid True and
\* is_mammography True, whether the method is gemini_ai or development_mode.
C17_NonMammographyNeverAccepted ==
    \A w \in Callers :
        (SimpleDone(w) /\ NotAMammography(arg[w][1])) =>
            ~(ret[w].value[1].is_valid /\ ret[w].value[1].is_mammography)

\* a call of _parse_ai_response on its own has returned
ParseDone(w) == pc[w] = "done" /\ entry[w] = "_parse_ai_response"

\* C18 (as stated): on every successful parse bi_rads_category is an integer
\* in 1..6 and cancer_probability an integer in 0..100.
C18_ParsedValuesOnTheirScales ==
    \A w \in Callers :
        (ParseDone(w) /\ ret[w].value[1].success) =>
            /\ ret[w].value[1].bi_rads_category \in 1..6
            /\ ret[w].value[1].cancer_probability \in 0..100

\* the dictionary the cancer analysis of caller w has just produced: from the
\* return of the analysis until its caller goes on
AnalysisOf(w) ==
    IF pc[w] = "done" /\ entry[w] = "analyze_mammography_for_cancer"
    THEN ret[w].value
    ELSE IF pc[w] \in {"analysis_return", "show_analysis"}
    THEN cancer_analysis[w]
    ELSE None

\* the analysis of the run met one of the failures: no GOOGLE_API_KEY, an
\* image that cannot be read, an error of the AI call
AnalysisFailure(w) ==
    LET run == arg[w][1]
        f == PathOf(w)
    IN  \/ run.env.key \in {None, Some("")}
        \/ f = None
        \/ f[1].access # "ok"
        \/ ~f[1].decodable
        \/ run.ai.raises # ""

C19_MissingKeyReturned ==
    \E w \in Callers :
        /\ pc[w] = "done"
        /\ entry[w] = "analyze_mammography_for_cancer"
        /\ arg[w][1].env.key = None
        /\ ret[w].value[1].error.msg = "Cancer classification system error: "

\* the response could not be parsed: an error with the category 1
C19_ParsingFailureReturned ==
    \E w \in Callers :
        /\ pc[w] = "done"
        /\ entry[w] = "analyze_mammography_for_cancer"
        /\ ~AnalysisFailure(w)
        /\ "error" \in DOMAIN ret[w].value[1]
        /\ ret[w].value[1].bi_rads_category = 1

\* C20 (as stated): with a Gemini model configured, when the confidence of
\* the AI analysis is not strictly above 0.6 (the 0.0 of a failed AI call
\* included) the returned result has is_valid False and its errors report
\* that the AI confidence is too low.
C20_LowConfidenceRejected ==
    \A w \in Callers :
        ( /\ SimpleDone(w)
          /\ self.gemini_model # None
          /\ result[w] # None
          /\ RLeq(result[w][1].confidence, R(6, 10)) ) =>
            /\ ~ret[w].value[1].is_valid
            /\ HasError(ret[w].value[1], "AI confidence too low: %")

-----------------------------------------------------------------------------
(* Development mode, the order of a run, the parsed numbers, the schedule *)

\* no Gemini model is configured: GOOGLE_API_KEY missing or equal to the
\* placeholder, or the initialization failed
NoModelConfigured(env) ==
    \/ env.key = None
    \/ env.key = Some(PlaceholderKey)
    \/ env.genai = "raises"

\* the file of the call exists and can be loaded
Loadable(f) == f # None /\ f[1].access = "ok" /\ f[1].decodable

C21_MissingFileRejected ==
    \E w \in Callers :
        /\ SimpleDone(w)
        /\ arg[w][1].env.key = None
        /\ arg[w][1].file[1].access = "missing"
        /\ ~ret[w].value[1].is_valid

\* the run of the app of caller w is inside analyze_mammography_for_cancer
InAnalysis(w) ==
    /\ entry[w] = "main"
    /\ pc[w] \in {"create_classifier", "open_image", "generate", "analysis_return"}

C22_ExceptionAfterAnalysis ==
    \E w \in Callers :
        /\ entry[w] = "main"
        /\ pc[w] = "except"
        /\ cancer_analysis[w] # None
        /\ temp_file[w] # None

\* the validation failed and the run has reached the clean-up
C22_FailedValidationCleanedUp ==
    \E w \in Callers :
        /\ entry[w] = "main"
        /\ pc[w] = "footer"
        /\ validation_result[w] # None
        /\ ~validation_result[w][1].is_valid
        /\ temp_file[w] = None

\* the number a response gives after a key, all its digits; None when the
\* key is followed by no digit
GivenNumber(text, key) == re_search_digits(text, key, TRUE, <<>>)

C23_GivenCategoryKept ==
    \E w \in Callers :
        /\ ParseDone(w)
        /\ GivenNumber(arg[w][1], BiRadsKey) = Some(<<"3">>)
        /\ GivenNumber(arg[w][1], ProbabilityKey) = Some(<<"9", "5">>)
        /\ ret[w].value[1].bi_rads_category = 3

\* a response giving the number 10 as category: the first digit is read
C23_FirstDigitOfLongerNumber ==
    \E w \in Callers :
        /\ ParseDone(w)
        /\ GivenNumber(arg[w][1], BiRadsKey) = Some(<<"1", "0">>)
        /\ ret[w].value[1].bi_rads_category = 1

C24_BenignInCapitals ==
    \E w \in Callers :
        /\ ParseDone(w)
        /\ GivenNumber(arg[w][1], ProbabilityKey) = None
        /\ \E word \in BenignWords : In(upper(word), arg[w][1])
        /\ ret[w].value[1].cancer_probability = 15

\* C25 (as stated): for every AI response text the confidence returned by
\* _parse_gemini_response is in [0,1]; it is the integer percentage after
\* CONFIDENCE: divided by 100 when there is one, and 0.0 otherwise.
C25_ParsedConfidenceInUnitInterval ==
    \A w \in Callers :
        ( /\ pc[w] = "decide_ai"
          /\ arg[w][1].ai.raises = "" ) =>
            LET confidence == result[w][1].confidence
                percentage == re_search_digits(upper(arg[w][1].ai.text),
                                               ConfidenceKey, TRUE, <<"%">>)
            IN  /\ RLeq(RInt(0), confidence)
                /\ RLeq(confidence, RInt(1))
                /\ percentage # None =>
                      confidence = R(Decimal(percentage[1]), 100)
                /\ percentage = None => confidence = RInt(0)

\* a call of _get_followup_schedule, of _generate_recommendations has returned
ScheduleDone(w) == pc[w] = "done" /\ entry[w] = "_get_followup_schedule"
RecommendationsDone(w) == pc[w] = "done" /\ entry[w] = "_generate_recommendations"

\* C26: _get_followup_schedule gives urgency precedence over BI-RADS:
\* IMMEDIATE yields consultation within 24-48 hours and URGENT follow-up
\* within 1-2 weeks, whatever the BI-RADS value; for any other urgency
\* BI-RADS decides (>= 4: 2-4 weeks for tissue sampling, 3: six-month
\* follow-up, otherwise routine annual screening). So for an analysis
\* produced by _parse_ai_response with risk_level HIGH the schedule is never
\* Routine annual screening.
C26_UrgencyBeforeBiRads ==
    \A w \in Callers :
        /\ ScheduleDone(w) =>
              LET bi_rads == arg[w][1].bi_rads
                  urgency == arg[w][1].urgency
                  schedule == ret[w].value[1]
              IN  /\ urgency = "IMMEDIATE" =>
                        schedule = "Immediate consultation within 24-48 hours"
                  /\ urgency = "URGENT" =>
                        schedule = "Urgent follow-up within 1-2 weeks"
                  /\ urgency \notin {"IMMEDIATE", "URGENT"} =>
                        /\ bi_rads >= 4 =>
                              schedule = "Follow-up within 2-4 weeks for tissue sampling"
                        /\ bi_rads = 3 =>
                              schedule = "Short-term follow-up in 6 months"
                        /\ bi_rads < 3 => schedule = "Routine annual screening"
        /\ (RecommendationsDone(w) /\ arg[w][1].risk_level = "HIGH") =>
              ret[w].value[1].followup_schedule # "Routine annual screening"

\* the schedule was asked for IMMEDIATE urgency and category 3
C26_ImmediateWithCategoryThree ==
    \E w \in Callers :
        /\ ScheduleDone(w)
        /\ arg[w][1].urgency = "IMMEDIATE"
        /\ arg[w][1].bi_rads = 3
        /\ ret[w].value[1] = "Immediate consultation within 24-48 hours"

\* recommendations for a HIGH risk analysis whose response gave category 1
C26_HighRiskWithCategoryOne ==
    \E w \in Callers :
        /\ RecommendationsDone(w)
        /\ arg[w][1].risk_level = "HIGH"
        /\ arg[w][1].bi_rads_category = 1
        /\ ret[w].value[1].followup_schedule = "Urgent follow-up within 1-2 weeks"

\* C27: every result returned by validate_image has is_valid True if and only
\* if errors is empty, and if and only if is_mammography is True and
\* confidence > 0.7; the warnings (aspect ratio, brightness) never change
\* is_valid, which is still False when they have been added.
C27_ValidIffNoErrorIffConfident ==
    \A w \in Callers :
        /\ ValidateImageDone(w) =>
              LET out == ret[w].value[1]
              IN  /\ ret[w].raised = ""
                  /\ out.is_valid <=> (out.errors = <<>>)
                  /\ out.is_valid <=>
                        (out.is_mammography /\ RLess(R(7, 10), out.confidence))
        /\ (entry[w] = "validate_image" /\ pc[w] = "decide") =>
              ~validation_result[w][1].is_valid

\* an image was accepted with a warning
C27_AcceptedWithWarning ==
    \E w \in Callers :
        /\ ValidateImageDone(w)
        /\ ret[w].value[1].is_valid
        /\ ret[w].value[1].warnings # <<>>
        /\ ret[w].value[1].errors = <<>>

\* an image was refused without any warning
C27_RefusedWithoutWarning ==
    \E w \in Callers :
        /\ ValidateImageDone(w)
        /\ image[w] # None
        /\ ~ret[w].value[1].is_valid
        /\ ret[w].value[1].warnings = <<>>
        /\ Len(ret[w].value[1].errors) = 1

\* what reaches the medical checks of validate_image is an RGB uint8 array
LoadedIsRGB ==
    \A w \in Callers :
        (entry[w] = "validate_image" /\ pc[w] \in {"medical", "decide"}) =>
            /\ image[w] # None
            /\ image[w][1].channels = 3
            /\ image[w][1].dtype = "uint8"

=============================================================================
